---- MODULE Spec2Model ----
(***************************************************************************)
(* A model of django_countries.Countries (src/django_countries/__init__.py)*)
(* : option resolution, the countries_context manager, the resolution of   *)
(* the "first" countries, the lazily built and cached country mapping and  *)
(* the per-language iteration cache.                                       *)
(*                                                                         *)
(* Python values are modelled as follows.                                  *)
(*   str        a TLA+ string (Len, SubSeq, Head, Tail and \o act on it)   *)
(*   None / v   an optional value is <<>> (None or absent) or <<v>>        *)
(*   list       a sequence                                                 *)
(*   dict       a sequence of records [k |-> key, v |-> value] with        *)
(*              distinct keys, in insertion order; the options dict of a   *)
(*              context is a record over the option names                  *)
(***************************************************************************)
EXTENDS Integers, Sequences, FiniteSets, TLC

VARIABLES
    language,    \* per thread: the active language, get_language()
    ctxOptions,  \* per thread: _countries_context.options (absent or a dict)
    ctxFrames,   \* per thread: previous_context of every open with-block
    ctxEntered,  \* per thread: history, the options in force before each open block was entered
    outerIter,   \* per thread: history, what iteration returned before the outermost block was entered
    settings,    \* the global settings COUNTRIES_<OPTION>
    attrs,       \* the instance/class attributes of the Countries object
    self,        \* the cached attributes of the Countries object
    tables,      \* the dicts of the modules: data.ALT_CODES and ioc_data.ISO_TO_IOC
    other,       \* the cached attributes of a second Countries object, without attributes of its own
    last         \* the last operation and what it returned

vars == <<language, ctxOptions, ctxFrames, ctxEntered, outerIter, settings, attrs, self, tables,
          other, last>>

-----------------------------------------------------------------------------
(* Optional values.                                                        *)

None == <<>>

Some(v) == <<v>>

IsNone(x) == x = <<>>

Val(x) == x[1]

-----------------------------------------------------------------------------
(* Assignment: name = value computes the value once and names it.  Here    *)
(* it is written [name \in {value} |-> body], the body in which the name   *)
(* is used, and Bind gives the value of that body.                         *)

Bind(assignment) ==
    CHOOSE result \in {body[CHOOSE names \in DOMAIN body : TRUE] : body \in {assignment}} : TRUE

-----------------------------------------------------------------------------
(* str methods used by the source.                                         *)

LowerAlpha == "abcdefghijklmnopqrstuvwxyz"

UpperAlpha == "ABCDEFGHIJKLMNOPQRSTUVWXYZ"

CharAt(s, i) == SubSeq(s, i, i)

\* the position of the one-character string c in alphabet, 0 if absent
IndexIn(c0, alphabet) ==
    Bind([c \in {c0} |->
        IF \E i \in 1..Len(alphabet) : CharAt(alphabet, i) = c
        THEN CHOOSE i \in 1..Len(alphabet) : CharAt(alphabet, i) = c
        ELSE 0])

RECURSIVE str_upper(_)
str_upper(s0) ==
    Bind([s \in {s0} |->
        IF s = "" THEN ""
        ELSE Bind([i \in {IndexIn(Head(s), LowerAlpha)} |->
                (IF i > 0 THEN CharAt(UpperAlpha, i) ELSE Head(s)) \o str_upper(Tail(s))])])

RECURSIVE str_lower(_)
str_lower(s0) ==
    Bind([s \in {s0} |->
        IF s = "" THEN ""
        ELSE Bind([i \in {IndexIn(Head(s), UpperAlpha)} |->
                (IF i > 0 THEN CharAt(LowerAlpha, i) ELSE Head(s)) \o str_lower(Tail(s))])])

\* sep in s, for a one-character sep
str_contains(s0, sep0) ==
    Bind([s \in {s0}, sep \in {sep0} |-> \E i \in 1..Len(s) : CharAt(s, i) = sep])

\* s.split(sep): the list of the pieces of s between occurrences of sep
RECURSIVE str_split(_, _)
str_split(s0, sep0) ==
    Bind([s \in {s0}, sep \in {sep0} |->
        IF ~str_contains(s, sep) THEN <<s>>
        ELSE Bind([i \in {CHOOSE j \in 1..Len(s) :
                               /\ CharAt(s, j) = sep
                               /\ \A k \in 1..(j - 1) : CharAt(s, k) # sep} |->
                      <<SubSeq(s, 1, i - 1)>> \o str_split(SubSeq(s, i + 1, Len(s)), sep)])])

-----------------------------------------------------------------------------
(* list and dict helpers.                                                  *)

\* x in lst
InList(x0, lst0) == Bind([x \in {x0}, lst \in {lst0} |-> \E i \in 1..Len(lst) : lst[i] = x])

DictKeys(d0) == Bind([d \in {d0} |-> {d[i].k : i \in 1..Len(d)}])

DictHas(d0, key0) == Bind([d \in {d0}, key \in {key0} |-> \E i \in 1..Len(d) : d[i].k = key])

\* d[key], for a key of d
DictGet(d0, key0) ==
    Bind([d \in {d0}, key \in {key0} |-> d[CHOOSE i \in 1..Len(d) : d[i].k = key].v])

\* d[key] = value: replaces the value in place, or appends a new item
DictSet(d0, key0, value0) ==
    Bind([d \in {d0}, key \in {key0}, value \in {value0} |->
        IF DictHas(d, key)
        THEN [i \in 1..Len(d) |-> IF d[i].k = key THEN [k |-> key, v |-> value] ELSE d[i]]
        ELSE Append(d, [k |-> key, v |-> value])])

\* bool(x) of an optional bool: None and False are falsy
TruthyBool(x0) == Bind([x \in {x0} |-> ~IsNone(x) /\ Val(x) = TRUE])

\* bool(x) of an optional list or dict: None, [] and {} are falsy
TruthySeq(x0) == Bind([x \in {x0} |-> ~IsNone(x) /\ Val(x) # <<>>])

\* bool(x) of an optional str: None and "" are falsy
TruthyStr(x0) == Bind([x \in {x0} |-> ~IsNone(x) /\ Val(x) # ""])

-----------------------------------------------------------------------------
(* Option resolution.                                                      *)

\* The options of Countries; each has the setting COUNTRIES_<OPTION>.
OptionNames ==
    {"first", "only", "first_sort", "first_repeat", "first_break",
     "first_by_language", "first_auto_detect", "common_names", "override"}

\* The options dict of a context (the keyword arguments of
\* countries_context): for every option, <<>> if the dict has no such key,
\* else <<value>> with the optional value given.
NoOptions == [option \in OptionNames |-> <<>>]

HasOption(options, option) == options[option] # <<>>

\* bool(context_options): a missing or empty dict is falsy
ContextSet(ctx) == ~IsNone(ctx) /\ \E option \in OptionNames : HasOption(Val(ctx), option)

\* env is what a call sees: the calling thread's context options and
\* language, the instance attributes and the global settings.
Env(t) ==
    [ctx |-> ctxOptions[t], language |-> language[t],
     attrs |-> attrs, settings |-> settings]

\* get_option with the attribute consulted before the context
get_option_attrs_first(env, option) ==
    LET context_options == env.ctx IN
    IF ~IsNone(env.attrs[option])
    THEN env.attrs[option]
    ELSE IF ContextSet(context_options) /\ HasOption(Val(context_options), option)
         THEN Val(Val(context_options)[option])
         ELSE env.settings[option]

\* Countries.get_option: context, then instance attribute, then setting
get_option(env, option) ==
    LET context_options == env.ctx IN
    IF ContextSet(context_options) /\ HasOption(Val(context_options), option)
    THEN Val(Val(context_options)[option])
    ELSE IF ~IsNone(env.attrs[option])
         THEN env.attrs[option]
         ELSE env.settings[option]

-----------------------------------------------------------------------------
(* Countries._resolve_first_countries.                                     *)

\* the keys of by_language taken as they are written
NormalizeKeys_as_written(d0) == d0

\* {k.lower(): v for k, v in by_language.items()}
RECURSIVE NormalizeKeys(_)
NormalizeKeys(d0) ==
    Bind([d \in {d0} |->
        IF d = <<>> THEN <<>>
        ELSE DictSet(NormalizeKeys(SubSeq(d, 1, Len(d) - 1)),
                     str_lower(d[Len(d)].k), d[Len(d)].v)])

\* result.extend(codes), without the membership test
AppendNew_extend(result0, codes0) == result0 \o codes0

\* for code in codes: if code not in result: result.append(code)
RECURSIVE AppendNew(_, _)
AppendNew(result0, codes0) ==
    Bind([result \in {result0}, codes \in {codes0} |->
        IF codes = <<>> THEN result
        ELSE AppendNew(IF InList(Head(codes), result) THEN result
                       ELSE Append(result, Head(codes)),
                       Tail(codes))])

\* "-" in language or "_" in language
HasSeparator(lang) == str_contains(lang, "-") \/ str_contains(lang, "_")

\* language.split(separator), with separator "-" if "-" in language else "_"
LocaleParts(lang) ==
    str_split(lang, IF str_contains(lang, "-") THEN "-" ELSE "_")

\* language.split("-")[0].split("_")[0].lower()
BaseLanguage(lang) == str_lower(str_split(str_split(lang, "-")[1], "_")[1])

\* The block under "if by_language:": the list it returns, None if it falls through.
ByLanguageFirst(env) ==
    LET auto_detect == TruthyBool(get_option(env, "first_auto_detect"))
        opt == get_option(env, "first_by_language")
        by_language == IF TruthySeq(opt) THEN Val(opt) ELSE <<>>
    IN
    IF by_language = <<>> \/ ~TruthyStr(env.language) THEN None
    ELSE
      Bind([lang \in {Val(env.language)},
            by_language_normalized \in {NormalizeKeys(by_language)},
            parts \in {LocaleParts(Val(env.language))} |->
        LET base_lang == str_lower(parts[1])
            country_code == str_upper(parts[2])
            base_group == IF DictHas(by_language_normalized, base_lang)
                          THEN DictGet(by_language_normalized, base_lang)
                          ELSE <<>>
            result == AppendNew(IF country_code # "" THEN <<country_code>> ELSE <<>>,
                                base_group)
        IN
        IF DictHas(by_language_normalized, str_lower(lang))
        THEN Some(DictGet(by_language_normalized, str_lower(lang)))
        ELSE IF auto_detect /\ HasSeparator(lang) /\ Len(parts) = 2 /\ result # <<>>
        THEN Some(result)
        ELSE IF DictHas(by_language_normalized, BaseLanguage(lang))
        THEN Some(DictGet(by_language_normalized, BaseLanguage(lang)))
        ELSE None])

\* the auto-detect block entered whatever first_auto_detect says
AutoDetectFirst_unconditional(env) ==
    LET opt == get_option(env, "first")
        fallback_first == IF TruthySeq(opt) THEN Val(opt) ELSE <<>>
    IN
    IF ~TruthyStr(env.language) THEN None
    ELSE
      Bind([lang \in {Val(env.language)}, parts \in {LocaleParts(Val(env.language))} |->
        IF HasSeparator(lang) /\ Len(parts) = 2 /\ str_upper(parts[2]) # ""
        THEN Some(AppendNew(<<str_upper(parts[2])>>, fallback_first))
        ELSE None])

\* The block under "if auto_detect:" (pure auto-detect mode): the list it
\* returns, None if it falls through.
AutoDetectFirst(env) ==
    LET auto_detect == TruthyBool(get_option(env, "first_auto_detect"))
        opt == get_option(env, "first")
        fallback_first == IF TruthySeq(opt) THEN Val(opt) ELSE <<>>
    IN
    IF ~auto_detect \/ ~TruthyStr(env.language) THEN None
    ELSE
      Bind([lang \in {Val(env.language)}, parts \in {LocaleParts(Val(env.language))} |->
        IF HasSeparator(lang) /\ Len(parts) = 2 /\ str_upper(parts[2]) # ""
        THEN Some(AppendNew(<<str_upper(parts[2])>>, fallback_first))
        ELSE None])

\* a resolution in which a first list given by the context wins outright
_resolve_first_countries_context_first(env) ==
    IF /\ ContextSet(env.ctx)
       /\ HasOption(Val(env.ctx), "first")
       /\ TruthySeq(get_option(env, "first"))
    THEN Val(get_option(env, "first"))
    ELSE Bind([by_language_first \in {ByLanguageFirst(env)} |->
            IF ~IsNone(by_language_first) THEN Val(by_language_first)
            ELSE Bind([detected \in {AutoDetectFirst(env)}, opt \in {get_option(env, "first")} |->
                    IF ~IsNone(detected) THEN Val(detected)
                    ELSE IF TruthySeq(opt) THEN Val(opt) ELSE <<>>])])

_resolve_first_countries(env) ==
    Bind([by_language_first \in {ByLanguageFirst(env)} |->
        IF ~IsNone(by_language_first) THEN Val(by_language_first)
        ELSE Bind([detected \in {AutoDetectFirst(env)}, opt \in {get_option(env, "first")} |->
                IF ~IsNone(detected) THEN Val(detected)
                ELSE IF TruthySeq(opt) THEN Val(opt) ELSE <<>>])])

-----------------------------------------------------------------------------
(* Country names and the bundled data.                                     *)

\* A country name: a plain (lazily translated) string, or a dict that may
\* carry name, names, alpha3, numeric, ioc_code and flag_url; a key the
\* dict does not have is None here.
PlainName(s) ==
    [isdict |-> FALSE, name |-> Some(s), names |-> None, alpha3 |-> None,
     numeric |-> None, ioc_code |-> None, flag_url |-> None]

EmptyDictName ==
    [isdict |-> TRUE, name |-> None, names |-> None, alpha3 |-> None,
     numeric |-> None, ioc_code |-> None, flag_url |-> None]

NameKeys == {"name", "names", "alpha3", "numeric", "ioc_code", "flag_url"}

\* dict.update on two name dicts: merged = a.copy(); merged.update(b)
NameUpdate(a, b) ==
    [isdict |-> TRUE,
     name |-> IF IsNone(b.name) THEN a.name ELSE b.name,
     names |-> IF IsNone(b.names) THEN a.names ELSE b.names,
     alpha3 |-> IF IsNone(b.alpha3) THEN a.alpha3 ELSE b.alpha3,
     numeric |-> IF IsNone(b.numeric) THEN a.numeric ELSE b.numeric,
     ioc_code |-> IF IsNone(b.ioc_code) THEN a.ioc_code ELSE b.ioc_code,
     flag_url |-> IF IsNone(b.flag_url) THEN a.flag_url ELSE b.flag_url]

\* django_countries.data.COUNTRIES, an excerpt in the order of the source
COUNTRIES ==
    << [k |-> "CA", v |-> PlainName("Canada")],
       [k |-> "CZ", v |-> PlainName("Czechia")],
       [k |-> "FR", v |-> PlainName("France")],
       [k |-> "GB", v |-> PlainName("United Kingdom of Great Britain and Northern Ireland")],
       [k |-> "US", v |-> PlainName("United States of America")] >>

\* django_countries.data.ALT_CODES for the same codes: the tuples of the
\* source, (alpha3, numeric, a third number)
ALT_CODES ==
    << [k |-> "CA", v |-> <<"CAN", Some(124), Some(1)>>],
       [k |-> "CZ", v |-> <<"CZE", Some(203), Some(420)>>],
       [k |-> "FR", v |-> <<"FRA", Some(250), Some(33)>>],
       [k |-> "GB", v |-> <<"GBR", Some(826), Some(44)>>],
       [k |-> "US", v |-> <<"USA", Some(840), Some(1)>>] >>

\* CountriesBase.COMMON_NAMES, for the codes of the excerpt
COMMON_NAMES == << [k |-> "GB", v |-> PlainName("United Kingdom")] >>

\* CountriesBase.OLD_NAMES, for the codes of the excerpt
OLD_NAMES == << [k |-> "CZ", v |-> <<"Czech Republic">>] >>

-----------------------------------------------------------------------------
(* The outcome of a method: the exception it raised ("" if none), the      *)
(* object's cached attributes afterwards and the value returned.           *)

Ret(obj, value) == [exc |-> "", self |-> obj, ret |-> value]

Raise(obj, exception) == [exc |-> exception, self |-> obj, ret |-> None]

\* A Countries object on which nothing has been read yet.
NewCountries ==
    [_countries |-> None, _alt_codes |-> None, _ioc_codes |-> None,
     _flag_urls |-> None, _shadowed_names |-> None, _iter_cache |-> None,
     countries_first |-> None]

-----------------------------------------------------------------------------
(* Countries._build_countries_dict.                                        *)

\* bool(only): an empty list or dict is falsy
OnlySet(only) == ~IsNone(only) /\ Val(only).items # <<>>

\* only_choices: only is a dict, or no item of the list is a bare code
OnlyChoices(only) ==
    Val(only).isdict \/ \A i \in 1..Len(Val(only).items) : ~IsNone(Val(only).items[i].name)

\* dict(only): later pairs replace earlier ones with the same code
RECURSIVE DictOfPairs(_)
DictOfPairs(items0) ==
    Bind([items \in {items0} |->
        IF items = <<>> THEN <<>>
        ELSE DictSet(DictOfPairs(SubSeq(items, 1, Len(items) - 1)),
                     items[Len(items)].code, Val(items[Len(items)].name))])

\* the loop over only that copies bare codes from the base table and
\* takes (code, name) pairs as given; a bare code must be in the table
OnlyMissing(items) ==
    \E i \in 1..Len(items) : IsNone(items[i].name) /\ ~DictHas(COUNTRIES, items[i].code)

RECURSIVE OnlyFromBase(_)
OnlyFromBase(items0) ==
    Bind([items \in {items0} |->
        IF items = <<>> THEN <<>>
        ELSE LET item == items[Len(items)]
             IN DictSet(OnlyFromBase(SubSeq(items, 1, Len(items) - 1)), item.code,
                        IF IsNone(item.name) THEN DictGet(COUNTRIES, item.code)
                        ELSE Val(item.name))])

\* for code, name in self.COMMON_NAMES.items(): if code in result: result[code] = name
RECURSIVE ApplyCommonNames(_, _)
ApplyCommonNames(result0, common0) ==
    Bind([result \in {result0}, common \in {common0} |->
        IF common = <<>> THEN result
        ELSE ApplyCommonNames(IF DictHas(result, Head(common).k)
                              THEN DictSet(result, Head(common).k, Head(common).v)
                              ELSE result,
                              Tail(common))])

\* One step of the loop over override.items(); the values of countries
\* are optional names here, None marking a removed country.
OverrideOne(countries0, code0, override_value0) ==
    Bind([countries \in {countries0}, code \in {code0}, override_value \in {override_value0} |->
        IF IsNone(override_value) THEN DictSet(countries, code, None)
        ELSE LET value == Val(override_value)
                 existing == IF DictHas(countries, code) THEN DictGet(countries, code) ELSE None
                 existing_truthy ==
                     /\ ~IsNone(existing)
                     /\ IF Val(existing).isdict
                        THEN \E key \in NameKeys : ~IsNone(Val(existing)[key])
                        ELSE Val(Val(existing).name) # ""
             IN IF value.isdict /\ IsNone(value.name) /\ IsNone(value.names)
                THEN IF existing_truthy /\ Val(existing).isdict
                     THEN DictSet(countries, code, Some(NameUpdate(Val(existing), value)))
                     ELSE IF existing_truthy
                     THEN DictSet(countries, code,
                                  Some(NameUpdate([EmptyDictName EXCEPT !.name = Val(existing).name],
                                                  value)))
                     ELSE DictSet(countries, code, Some(value))
                ELSE DictSet(countries, code, Some(value))])

\* a loop that stops after the first item of the override
ApplyOverride_first_item(countries0, override0) ==
    Bind([countries \in {countries0}, override \in {override0} |->
        IF override = <<>> THEN countries
        ELSE OverrideOne(countries, Head(override).k, Head(override).v)])

RECURSIVE ApplyOverride(_, _)
ApplyOverride(countries0, override0) ==
    Bind([countries \in {countries0}, override \in {override0} |->
        IF override = <<>> THEN countries
        ELSE ApplyOverride(OverrideOne(countries, Head(override).k, Head(override).v),
                           Tail(override))])

\* a comprehension without the filter: a removed country stays, nameless
RECURSIVE DropRemoved_unfiltered(_)
DropRemoved_unfiltered(countries0) ==
    Bind([countries \in {countries0} |->
        IF countries = <<>> THEN <<>>
        ELSE << [k |-> Head(countries).k,
                 v |-> IF IsNone(Head(countries).v) THEN PlainName("")
                       ELSE Val(Head(countries).v)] >>
             \o DropRemoved_unfiltered(Tail(countries))])

\* {code: name for code, name in _countries.items() if name is not None},
\* on a dict of optional names (WrapNames makes one from a dict of names)
RECURSIVE DropRemoved(_)
DropRemoved(countries0) ==
    Bind([countries \in {countries0} |->
        IF countries = <<>> THEN <<>>
        ELSE (IF IsNone(Head(countries).v) THEN <<>>
              ELSE << [k |-> Head(countries).k, v |-> Val(Head(countries).v)] >>)
             \o DropRemoved(Tail(countries))])

WrapNames(countries0) ==
    Bind([countries \in {countries0} |->
        [i \in 1..Len(countries) |-> [k |-> countries[i].k, v |-> Some(countries[i].v)]]])

\* the loop that records the official name shadowed by a common name
RECURSIVE ShadowCommon(_, _, _, _)
ShadowCommon(shadowed0, common0, result, override) ==
    Bind([shadowed \in {shadowed0}, common \in {common0} |->
        IF common = <<>> THEN shadowed
        ELSE LET code == Head(common).k
             IN ShadowCommon(IF DictHas(result, code) /\ ~DictHas(override, code)
                             THEN DictSet(shadowed, code, <<Val(DictGet(COUNTRIES, code).name)>>)
                             ELSE shadowed,
                             Tail(common), result, override)])

\* the loop that adds the old names: setdefault(code, []).extend(names)
RECURSIVE ShadowOld(_, _, _, _)
ShadowOld(shadowed0, old0, result, override) ==
    Bind([shadowed \in {shadowed0}, old \in {old0} |->
        IF old = <<>> THEN shadowed
        ELSE LET code == Head(old).k
                 before == IF DictHas(shadowed, code) THEN DictGet(shadowed, code) ELSE <<>>
             IN ShadowOld(IF DictHas(result, code) /\ ~DictHas(override, code)
                          THEN DictSet(shadowed, code, before \o Head(old).v)
                          ELSE shadowed,
                          Tail(old), result, override)])

\* the loop that fills self.countries_first from the first option
RECURSIVE FirstInResult(_, _)
FirstInResult(first0, result) ==
    Bind([first \in {first0} |->
        IF first = <<>> THEN <<>>
        ELSE Bind([code_upper \in {str_upper(Head(first))} |->
                (IF DictHas(result, code_upper) THEN <<code_upper>> ELSE <<>>)
                \o FirstInResult(Tail(first), result)])])

\* The branch that takes the countries from the bundled table: only (bare
\* codes or pairs), then the common names, then the override.
FromTable(only, common_names, override) ==
    LET picked == IF OnlySet(only) THEN OnlyFromBase(Val(only).items) ELSE COUNTRIES
        named == IF common_names THEN ApplyCommonNames(picked, COMMON_NAMES) ELSE picked
    IN IF override # <<>>
       THEN DropRemoved(ApplyOverride(WrapNames(named), override))
       ELSE named

_build_countries_dict(obj0, env) ==
    Bind([obj \in {obj0},
          only \in {get_option(env, "only")},
          override_opt \in {get_option(env, "override")} |->
        LET only_choices == ~OnlySet(only) \/ OnlyChoices(only)
            obj1 == IF IsNone(obj._shadowed_names)
                    THEN [obj EXCEPT !._shadowed_names = Some(<<>>)] ELSE obj
            common_names == TruthyBool(get_option(env, "common_names"))
            override == IF IsNone(override_opt) THEN <<>> ELSE Val(override_opt)
            first_opt == get_option(env, "first")
            first == IF TruthySeq(first_opt) THEN Val(first_opt) ELSE <<>>
        IN
        IF OnlySet(only) /\ ~only_choices /\ OnlyMissing(Val(only).items)
        THEN Raise(obj1, "KeyError")
        ELSE IF OnlySet(only) /\ only_choices
        THEN Bind([result_countries \in {DictOfPairs(Val(only).items)} |->
                Ret([obj1 EXCEPT !.countries_first =
                                    Some(FirstInResult(first, result_countries))],
                    result_countries)])
        ELSE Bind([result_countries \in {FromTable(only, common_names, override)} |->
                LET shadowed1 == IF common_names
                                 THEN ShadowCommon(Val(obj1._shadowed_names), COMMON_NAMES,
                                                   result_countries, override)
                                 ELSE Val(obj1._shadowed_names)
                    shadowed2 == ShadowOld(shadowed1, OLD_NAMES, result_countries, override)
                IN Ret([obj1 EXCEPT !._shadowed_names = Some(shadowed2),
                                    !.countries_first =
                                        Some(FirstInResult(first, result_countries))],
                       result_countries)])])

-----------------------------------------------------------------------------
(* The cached properties of Countries.                                     *)

\* context_options and "only" in context_options
ContextHasOnly(env) == ContextSet(env.ctx) /\ HasOption(Val(env.ctx), "only")

\* the countries property rebuilding the mapping at every read
countries_get_uncached(obj0, env) ==
    Bind([built \in {_build_countries_dict(obj0, env)} |->
        IF ContextHasOnly(env) \/ built.exc # "" THEN built
        ELSE Ret([built.self EXCEPT !._countries = Some(built.ret)], built.ret)])

\* the countries property: built fresh inside a context that names only,
\* otherwise built once and kept in _countries
countries_get(obj0, env) ==
    Bind([obj \in {obj0} |->
        IF ContextHasOnly(env) THEN _build_countries_dict(obj, env)
        ELSE IF IsNone(obj._countries)
        THEN Bind([built \in {_build_countries_dict(obj, env)} |->
                IF built.exc # "" THEN built
                ELSE Ret([built.self EXCEPT !._countries = Some(built.ret)], built.ret)])
        ELSE Ret(obj, Val(obj._countries))])

\* an invalidation that forgets the iteration cache
countries_del_keeps_iter_cache(obj) ==
    [obj EXCEPT !._countries = None, !._alt_codes = None, !._ioc_codes = None,
                !._flag_urls = None, !._shadowed_names = None]

\* del countries.countries
countries_del(obj) ==
    [obj EXCEPT !._countries = None, !._alt_codes = None, !._ioc_codes = None,
                !._flag_urls = None, !._shadowed_names = None, !._iter_cache = None]

\* The loop of alt_codes over the mapping: a name dict with alpha3 or
\* numeric replaces the entry of its code.  The entry found in the table
\* is unpacked into two names, which fails for a tuple of another length.
RECURSIVE AltCodesLoop(_, _)
AltCodesLoop(alt0, mapping0) ==
    Bind([alt \in {alt0}, mapping \in {mapping0} |->
        IF mapping = <<>> \/ alt.exc # "" THEN alt
        ELSE LET code == Head(mapping).k
                 country == Head(mapping).v
                 found == IF DictHas(alt.ret, code) THEN DictGet(alt.ret, code) ELSE <<"", None>>
                 alpha3 == IF ~IsNone(country.alpha3) THEN Val(country.alpha3) ELSE found[1]
                 numeric == IF ~IsNone(country.numeric) THEN country.numeric ELSE found[2]
             IN IF country.isdict /\ (~IsNone(country.alpha3) \/ ~IsNone(country.numeric))
                THEN IF Len(found) # 2
                     THEN [alt EXCEPT !.exc = "ValueError"]
                     ELSE AltCodesLoop([alt EXCEPT !.ret = DictSet(alt.ret, code, <<alpha3, numeric>>)],
                                       Tail(mapping))
                ELSE AltCodesLoop(alt, Tail(mapping))])

\* the alt_codes property
alt_codes_get(obj0, env) ==
    Bind([obj \in {obj0} |->
        IF ~IsNone(obj._alt_codes) THEN Ret(obj, Val(obj._alt_codes))
        ELSE Bind([read \in {countries_get([obj EXCEPT !._alt_codes = Some(ALT_CODES)], env)} |->
                IF read.exc # "" THEN read
                ELSE Bind([loop \in {AltCodesLoop([exc |-> "", ret |-> ALT_CODES], read.ret)} |->
                        IF loop.exc # ""
                        THEN Raise([read.self EXCEPT !._alt_codes = Some(loop.ret)], loop.exc)
                        ELSE Ret([read.self EXCEPT !._alt_codes = Some(loop.ret)], loop.ret)])])])

\* the shadowed_names property: reads countries while _shadowed_names is
\* missing or empty
shadowed_names_get(obj0, env) ==
    Bind([obj \in {obj0} |->
        IF TruthySeq(obj._shadowed_names) THEN Ret(obj, Val(obj._shadowed_names))
        ELSE Bind([read \in {countries_get(obj, env)} |->
                IF read.exc # "" THEN read
                ELSE Ret(read.self, Val(read.self._shadowed_names))])])

\* django_countries.ioc_data.ISO_TO_IOC, for the codes of the excerpt
ISO_TO_IOC ==
    << [k |-> "CA", v |-> "CAN"], [k |-> "CZ", v |-> "CZE"], [k |-> "FR", v |-> "FRA"],
       [k |-> "GB", v |-> "GBR"], [k |-> "US", v |-> "USA"] >>

\* the loop of ioc_codes over the mapping
RECURSIVE IocCodesLoop(_, _)
IocCodesLoop(ioc0, mapping0) ==
    Bind([ioc \in {ioc0}, mapping \in {mapping0} |->
        IF mapping = <<>> THEN ioc
        ELSE IocCodesLoop(IF Head(mapping).v.isdict /\ ~IsNone(Head(mapping).v.ioc_code)
                          THEN DictSet(ioc, Head(mapping).k, Val(Head(mapping).v.ioc_code))
                          ELSE ioc,
                          Tail(mapping))])

\* the ioc_codes property
ioc_codes_get(obj0, env) ==
    Bind([obj \in {obj0} |->
        IF ~IsNone(obj._ioc_codes) THEN Ret(obj, Val(obj._ioc_codes))
        ELSE Bind([read \in {countries_get([obj EXCEPT !._ioc_codes = Some(ISO_TO_IOC)], env)} |->
                IF read.exc # "" THEN read
                ELSE Bind([codes \in {IocCodesLoop(ISO_TO_IOC, read.ret)} |->
                        Ret([read.self EXCEPT !._ioc_codes = Some(codes)], codes)])])])

\* the loop of flag_urls over the mapping
RECURSIVE FlagUrlsLoop(_, _)
FlagUrlsLoop(urls0, mapping0) ==
    Bind([urls \in {urls0}, mapping \in {mapping0} |->
        IF mapping = <<>> THEN urls
        ELSE FlagUrlsLoop(IF Head(mapping).v.isdict /\ ~IsNone(Head(mapping).v.flag_url)
                          THEN DictSet(urls, Head(mapping).k, Val(Head(mapping).v.flag_url))
                          ELSE urls,
                          Tail(mapping))])

\* the flag_urls property
flag_urls_get(obj0, env) ==
    Bind([obj \in {obj0} |->
        IF ~IsNone(obj._flag_urls) THEN Ret(obj, Val(obj._flag_urls))
        ELSE Bind([read \in {countries_get([obj EXCEPT !._flag_urls = Some(<<>>)], env)} |->
                IF read.exc # "" THEN read
                ELSE Bind([urls \in {FlagUrlsLoop(<<>>, read.ret)} |->
                        Ret([read.self EXCEPT !._flag_urls = Some(urls)], urls)])])])

-----------------------------------------------------------------------------
(* The tables of the modules under the instances that use them.  An        *)
(* instance's _alt_codes or _ioc_codes first references the dict of the    *)
(* module; the loop below carries the dict of the module (base) and the    *)
(* dict of the instance once it has one (own, None before).                *)

\* a loop that never copies
CopyOnFirstWrite_skipped(loop) == loop

\* if not altered: self._alt_codes = self._alt_codes.copy(); altered = True
CopyOnFirstWrite(loop) ==
    IF IsNone(loop.own) THEN [loop EXCEPT !.own = Some(loop.base)] ELSE loop

\* self._alt_codes[code] = value: the dict written is the instance's own
\* if it has one, else the dict of the module the attribute references
WriteEntry(loop, code, value) ==
    IF IsNone(loop.own) THEN [loop EXCEPT !.base = DictSet(@, code, value)]
    ELSE [loop EXCEPT !.own = Some(DictSet(Val(@), code, value))]

\* the dict the attribute references
Referenced(loop) == IF IsNone(loop.own) THEN loop.base ELSE Val(loop.own)

\* the loop of alt_codes
RECURSIVE AltCodesShared(_, _)
AltCodesShared(loop0, mapping0) ==
    Bind([loop \in {loop0}, mapping \in {mapping0} |->
        IF mapping = <<>> \/ loop.exc # "" THEN loop
        ELSE LET code == Head(mapping).k
                 country == Head(mapping).v
             IN IF country.isdict /\ (~IsNone(country.alpha3) \/ ~IsNone(country.numeric))
                THEN Bind([copied \in {CopyOnFirstWrite(loop)} |->
                        LET found == IF DictHas(Referenced(copied), code)
                                     THEN DictGet(Referenced(copied), code) ELSE <<"", None>>
                            alpha3_ == IF ~IsNone(country.alpha3) THEN Val(country.alpha3)
                                       ELSE found[1]
                            numeric_ == IF ~IsNone(country.numeric) THEN country.numeric
                                        ELSE found[2]
                        IN IF Len(found) # 2 THEN [copied EXCEPT !.exc = "ValueError"]
                           ELSE AltCodesShared(WriteEntry(copied, code, <<alpha3_, numeric_>>),
                                               Tail(mapping))])
                ELSE AltCodesShared(loop, Tail(mapping))])

\* the loop of ioc_codes
RECURSIVE IocCodesShared(_, _)
IocCodesShared(loop0, mapping0) ==
    Bind([loop \in {loop0}, mapping \in {mapping0} |->
        IF mapping = <<>> THEN loop
        ELSE IF Head(mapping).v.isdict /\ ~IsNone(Head(mapping).v.ioc_code)
        THEN IocCodesShared(WriteEntry(CopyOnFirstWrite(loop), Head(mapping).k,
                                       Val(Head(mapping).v.ioc_code)),
                            Tail(mapping))
        ELSE IocCodesShared(loop, Tail(mapping))])

\* the outcome of a property over a table of a module: base is the dict
\* of the module afterwards
SharedOutcome(read, attribute, loop) ==
    [exc |-> loop.exc,
     self |-> [read.self EXCEPT ![attribute] = Some(Referenced(loop))],
     ret |-> IF loop.exc # "" THEN None ELSE Referenced(loop),
     base |-> loop.base]

\* the alt_codes property, given the dict data.ALT_CODES
alt_codes_shared(obj0, env, base0) ==
    Bind([obj \in {obj0}, base \in {base0} |->
        IF ~IsNone(obj._alt_codes)
        THEN [exc |-> "", self |-> obj, ret |-> Val(obj._alt_codes), base |-> base]
        ELSE Bind([read \in {countries_get([obj EXCEPT !._alt_codes = Some(base)], env)} |->
                IF read.exc # ""
                THEN [exc |-> read.exc, self |-> read.self, ret |-> None, base |-> base]
                ELSE SharedOutcome(read, "_alt_codes",
                                   AltCodesShared([exc |-> "", own |-> None, base |-> base],
                                                  read.ret))])])

\* the ioc_codes property, given the dict ioc_data.ISO_TO_IOC
ioc_codes_shared(obj0, env, base0) ==
    Bind([obj \in {obj0}, base \in {base0} |->
        IF ~IsNone(obj._ioc_codes)
        THEN [exc |-> "", self |-> obj, ret |-> Val(obj._ioc_codes), base |-> base]
        ELSE Bind([read \in {countries_get([obj EXCEPT !._ioc_codes = Some(base)], env)} |->
                IF read.exc # ""
                THEN [exc |-> read.exc, self |-> read.self, ret |-> None, base |-> base]
                ELSE SharedOutcome(read, "_ioc_codes",
                                   IocCodesShared([exc |-> "", own |-> None, base |-> base],
                                                  read.ret))])])

-----------------------------------------------------------------------------
(* Translation and collation (Django's gettext and pyuca, as the source    *)
(* uses them).                                                             *)

\* The translations of the French catalogue; every other language of the
\* model has none, so a message is its own translation there.
FrenchCatalog ==
    << [k |-> "Czech Republic", v |-> "Republique tcheque"],
       [k |-> "United Kingdom", v |-> "Royaume-Uni"],
       [k |-> "United States of America", v |-> "Etats-Unis"] >>

Catalog(lang) ==
    IF TruthyStr(lang) /\ BaseLanguage(Val(lang)) = "fr" THEN FrenchCatalog ELSE <<>>

\* force_str(name) of a lazily translated name under the active language;
\* inside no_translation_fallback() an untranslated message gives "".
force_str(lang, message0, fallback) ==
    Bind([catalog \in {Catalog(lang)}, message \in {message0} |->
        IF DictHas(catalog, message) THEN DictGet(catalog, message)
        ELSE IF fallback THEN message ELSE ""])

\* The names of the model in collation order; sort_key(item) is the
\* position of the item's name.
CollationOrder ==
    << "Canada", "Czech Republic", "Czechia", "Desert", "Etats-Unis", "France",
       "Neverland", "Republique tcheque", "Royaume-Uni", "United Kingdom",
       "United Kingdom of Great Britain and Northern Ireland",
       "United States of America" >>

sort_key(item) ==
    Bind([name \in {item.name} |->
        IF InList(name, CollationOrder)
        THEN CHOOSE i \in 1..Len(CollationOrder) : CollationOrder[i] = name
        ELSE 0])

\* a sort that puts an item before the earlier items of the same key
RECURSIVE sorted_ties_reversed(_)
sorted_ties_reversed(items0) ==
    Bind([items \in {items0} |->
        IF items = <<>> THEN <<>>
        ELSE Bind([before \in {sorted_ties_reversed(SubSeq(items, 1, Len(items) - 1))},
                   key \in {sort_key(items[Len(items)])} |->
                Bind([n \in {Cardinality({i \in 1..Len(before) : sort_key(before[i]) < key})} |->
                    SubSeq(before, 1, n) \o <<items[Len(items)]>>
                    \o SubSeq(before, n + 1, Len(before))])])])

\* sorted(items, key=sort_key): a stable sort
RECURSIVE sorted(_)
sorted(items0) ==
    Bind([items \in {items0} |->
        IF items = <<>> THEN <<>>
        ELSE Bind([before \in {sorted(SubSeq(items, 1, Len(items) - 1))},
                   key \in {sort_key(items[Len(items)])} |->
                Bind([n \in {Cardinality({i \in 1..Len(before) : sort_key(before[i]) <= key})} |->
                    SubSeq(before, 1, n) \o <<items[Len(items)]>>
                    \o SubSeq(before, n + 1, Len(before))])])])

-----------------------------------------------------------------------------
(* Countries.alpha2, translate_pair and translate_code.                    *)

Digits == "0123456789"

\* code_str.isdigit()
str_isdigit(s0) ==
    Bind([s \in {s0} |-> s # "" /\ \A i \in 1..Len(s) : IndexIn(CharAt(s, i), Digits) > 0])

\* int(code_str) of a string of digits
RECURSIVE str_int(_)
str_int(s0) ==
    Bind([s \in {s0} |->
        IF s = "" THEN 0
        ELSE 10 * str_int(SubSeq(s, 1, Len(s) - 1)) + (IndexIn(CharAt(s, Len(s)), Digits) - 1)])

\* the loop of alpha2 over alt_codes: the first code whose alpha3
\* (find_index 0) or numeric (find_index 1) equals find_value, else ""
AltLookup(alt0, code_str0) ==
    Bind([alt \in {alt0}, code_str \in {code_str0}, isdigit \in {str_isdigit(code_str0)} |->
        LET Matches(i) == IF isdigit
                          THEN alt[i].v[2] = Some(str_int(code_str))
                          ELSE alt[i].v[1] = code_str
        IN IF \E i \in 1..Len(alt) : Matches(i)
           THEN alt[CHOOSE i \in 1..Len(alt) : Matches(i) /\ \A j \in 1..(i - 1) : ~Matches(j)].k
           ELSE ""])

\* the second lookup of alpha2: the code, if the mapping has it, else ""
InCountries(obj, env, code_str) ==
    Bind([read \in {countries_get(obj, env)} |->
        IF read.exc # "" THEN read
        ELSE Ret(read.self, IF DictHas(read.ret, code_str) THEN code_str ELSE "")])

\* Countries.alpha2, for a code given as text
alpha2(obj, env, code) ==
    Bind([code_str \in {str_upper(code)}, read1 \in {countries_get(obj, env)} |->
        IF read1.exc # "" THEN read1
        ELSE IF DictHas(read1.ret, code_str) THEN Ret(read1.self, code_str)
        ELSE IF str_isdigit(code_str) \/ Len(code_str) = 3
        THEN Bind([alt \in {alt_codes_get(read1.self, env)} |->
                IF alt.exc # "" THEN alt
                ELSE Bind([found \in {AltLookup(alt.ret, code_str)} |->
                        InCountries(alt.self, env, found)])])
        ELSE InCountries(read1.self, env, code_str)])

\* the translated name: the name itself, or the first fallback name that
\* has a translation when the name has none
TranslatedName(lang, name0, fallback_names0) ==
    Bind([name \in {name0}, fallback_names \in {fallback_names0} |->
        IF fallback_names = <<>> THEN force_str(lang, name, TRUE)
        ELSE Bind([strict \in {force_str(lang, name, FALSE)},
                   usable \in {{i \in 1..Len(fallback_names) :
                                   force_str(lang, fallback_names[i], FALSE) # ""}} |->
                IF strict # "" THEN strict
                ELSE IF usable # {}
                THEN force_str(lang, fallback_names[CHOOSE i \in usable : \A j \in usable : i <= j],
                               FALSE)
                ELSE force_str(lang, name, TRUE)])])

\* Countries.translate_pair(code, name) for a name given as a string: the
\* fallback names are the shadowed names of the code
translate_name(obj, env, code0, name) ==
    Bind([shadowed \in {shadowed_names_get(obj, env)}, code \in {code0} |->
        IF shadowed.exc # "" THEN shadowed
        ELSE Ret(shadowed.self,
                 [code |-> code,
                  name |-> TranslatedName(env.language, name,
                                          IF DictHas(shadowed.ret, code)
                                          THEN DictGet(shadowed.ret, code) ELSE <<>>)])])

\* Countries.translate_pair(code): the name is looked up in the mapping
translate_pair(obj, env, code0) ==
    Bind([read \in {countries_get(obj, env)}, code \in {code0} |->
        IF read.exc # "" THEN read
        ELSE IF ~DictHas(read.ret, code) THEN Raise(read.self, "KeyError")
        ELSE Bind([name \in {DictGet(read.ret, code)} |->
                IF ~name.isdict THEN translate_name(read.self, env, code, Val(name.name))
                ELSE IF ~IsNone(name.names)
                THEN Ret(read.self,
                         [code |-> code,
                          name |-> TranslatedName(env.language, Head(Val(name.names)),
                                                  Tail(Val(name.names)))])
                ELSE IF IsNone(name.name) THEN Raise(read.self, "KeyError")
                ELSE Ret(read.self,
                         [code |-> code, name |-> force_str(env.language, Val(name.name), TRUE)])])])

\* translate_pair for each name of a list, in order; out.ret collects the records
RECURSIVE TranslateNames(_, _, _, _)
TranslateNames(out0, env, code, names0) ==
    Bind([out \in {out0}, names \in {names0} |->
        IF names = <<>> \/ out.exc # "" THEN out
        ELSE Bind([one \in {translate_name(out.self, env, code, Head(names))} |->
                IF one.exc # "" THEN one
                ELSE TranslateNames(Ret(one.self, Append(out.ret, one.ret)), env, code,
                                    Tail(names))])])

\* Countries.translate_code: the records of one code, appended to out.ret
translate_code(out0, env, code0, ignore_first) ==
    Bind([out \in {out0}, code \in {code0}, read \in {countries_get(out0.self, env)} |->
        IF read.exc # "" THEN read
        ELSE IF ~DictHas(read.ret, code) THEN Raise(read.self, "KeyError")
        ELSE Bind([country \in {DictGet(read.ret, code)} |->
                LET names == IF country.isdict
                             THEN IF ~IsNone(country.names) THEN Val(country.names)
                                  ELSE <<Val(country.name)>>
                             ELSE <<Val(country.name)>>
                    kept == IF ignore_first # <<>> /\ InList(code, ignore_first)
                            THEN Tail(names) ELSE names
                IN IF country.isdict /\ IsNone(country.names) /\ IsNone(country.name)
                   THEN Raise(read.self, "KeyError")
                   ELSE TranslateNames(Ret(read.self, out.ret), env, code, kept)])])

\* Countries.ioc_code
ioc_code(obj, env, code) ==
    Bind([norm \in {alpha2(obj, env, code)} |->
        IF norm.exc # "" THEN norm
        ELSE Bind([codes \in {ioc_codes_get(norm.self, env)} |->
                IF codes.exc # "" THEN codes
                ELSE Ret(codes.self,
                         IF DictHas(codes.ret, norm.ret) THEN DictGet(codes.ret, norm.ret)
                         ELSE "")])])

\* Countries.flag_url
flag_url(obj, env, code) ==
    Bind([norm \in {alpha2(obj, env, code)} |->
        IF norm.exc # "" THEN norm
        ELSE Bind([urls \in {flag_urls_get(norm.self, env)} |->
                IF urls.exc # "" THEN urls
                ELSE Ret(urls.self,
                         IF DictHas(urls.ret, norm.ret) THEN DictGet(urls.ret, norm.ret)
                         ELSE "")])])

\* Countries.name
name(obj, env, code) ==
    Bind([norm \in {alpha2(obj, env, code)} |->
        IF norm.exc # "" THEN norm
        ELSE Bind([read \in {countries_get(norm.self, env)} |->
                IF read.exc # "" THEN read
                ELSE IF ~DictHas(read.ret, norm.ret) THEN Ret(read.self, "")
                ELSE Bind([pair \in {translate_pair(read.self, env, norm.ret)} |->
                        IF pair.exc # "" THEN pair
                        ELSE Ret(pair.self, pair.ret.name)])])])

\* Countries.alpha3: a KeyError of the table lookup gives ""
alpha3(obj, env, code) ==
    Bind([norm \in {alpha2(obj, env, code)} |->
        IF norm.exc # "" THEN norm
        ELSE Bind([alt \in {alt_codes_get(norm.self, env)} |->
                IF alt.exc # "" THEN alt
                ELSE Ret(alt.self,
                         IF DictHas(alt.ret, norm.ret) THEN DictGet(alt.ret, norm.ret)[1]
                         ELSE "")])])

\* str(n) for a natural number
RECURSIVE int_str(_)
int_str(n0) ==
    Bind([n \in {n0} |->
        IF n < 10 THEN CharAt(Digits, n + 1)
        ELSE int_str(n \div 10) \o CharAt(Digits, (n % 10) + 1)])

\* f"{num:03d}"
Padded03d(num) ==
    Bind([digits \in {int_str(num)} |->
        IF Len(digits) >= 3 THEN digits
        ELSE SubSeq("000", 1, 3 - Len(digits)) \o digits])

\* Countries.numeric: None, the number, or the padded string
numeric(obj, env, code, padded) ==
    Bind([norm \in {alpha2(obj, env, code)} |->
        IF norm.exc # "" THEN norm
        ELSE Bind([alt \in {alt_codes_get(norm.self, env)} |->
                IF alt.exc # "" THEN alt
                ELSE Bind([num \in {IF DictHas(alt.ret, norm.ret)
                                    THEN DictGet(alt.ret, norm.ret)[2] ELSE None} |->
                        IF IsNone(num) THEN Ret(alt.self, None)
                        ELSE IF padded THEN Ret(alt.self, Some(Padded03d(Val(num))))
                        ELSE Ret(alt.self, num)])])])

-----------------------------------------------------------------------------
(* Countries.__iter__.                                                     *)

\* Whether hash() accepts the value a context option contributes to the
\* cache key: a list becomes a tuple of its items and a dict the tuple of
\* its sorted items, so the items must be hashable themselves; a list (a
\* value of first_by_language) and a name dict are not.
HashableOption(option, value) ==
    IF IsNone(value) THEN TRUE
    ELSE CASE option = "first_by_language" -> Val(value) = <<>>
           [] option = "only" ->
                \A i \in 1..Len(Val(value).items) :
                    IsNone(Val(value).items[i].name) \/ ~Val(Val(value).items[i].name).isdict
           [] option = "override" ->
                \A i \in 1..Len(Val(value)) :
                    IsNone(Val(value)[i].v) \/ ~Val(Val(value)[i].v).isdict
           [] OTHER -> TRUE

\* a cache key that leaves the context out
ContextKey_ignored(env) == NoOptions

\* context_key: the sorted tuple of the (option, value) items of the
\* context, () without a context or with an empty one; the options dict
\* stands for the sorted tuple of its items
ContextKey(env) == IF ContextSet(env.ctx) THEN Val(env.ctx) ELSE NoOptions

CacheKey(env) ==
    [language |-> env.language, first |-> _resolve_first_countries(env), ctx |-> ContextKey(env)]

\* self._iter_cache: a dict that is only ever looked up by key, kept as
\* the set of its items
CacheHas(cache, key) == \E item \in cache : item.k = key

CacheGet(cache, key) == (CHOOSE item \in cache : item.k = key).v

CachePut(cache, key, value) ==
    {item \in cache : item.k # key} \cup {[k |-> key, v |-> value]}

KeyHashable(env) ==
    \/ ~ContextSet(env.ctx)
    \/ \A option \in OptionNames :
          HasOption(Val(env.ctx), option) => HashableOption(option, Val(Val(env.ctx)[option]))

\* The loop that normalises the resolved first codes with alpha2 and keeps
\* those found in self._countries; out.ret collects first_codes.
RECURSIVE FirstCodes(_, _, _)
FirstCodes(out0, env, codes0) ==
    Bind([out \in {out0}, codes \in {codes0} |->
        IF codes = <<>> \/ out.exc # "" THEN out
        ELSE Bind([norm \in {alpha2(out.self, env, Head(codes))} |->
                IF norm.exc # "" THEN norm
                ELSE IF IsNone(norm.self._countries) THEN Raise(norm.self, "AttributeError")
                ELSE FirstCodes(Ret(norm.self,
                                    IF DictHas(Val(norm.self._countries), norm.ret)
                                    THEN Append(out.ret, norm.ret) ELSE out.ret),
                                env, Tail(codes))])])

\* translate_pair(code) for each of first_codes
RECURSIVE TranslateFirst(_, _, _)
TranslateFirst(out0, env, codes0) ==
    Bind([out \in {out0}, codes \in {codes0} |->
        IF codes = <<>> \/ out.exc # "" THEN out
        ELSE Bind([one \in {translate_pair(out.self, env, Head(codes))} |->
                IF one.exc # "" THEN one
                ELSE TranslateFirst(Ret(one.self, Append(out.ret, one.ret)), env, Tail(codes))])])

\* translate_code(code, ignore_first) for each code of the mapping
RECURSIVE TranslateAll(_, _, _, _)
TranslateAll(out0, env, mapping0, ignore_first) ==
    Bind([out \in {out0}, mapping \in {mapping0} |->
        IF mapping = <<>> \/ out.exc # "" THEN out
        ELSE TranslateAll(translate_code(out, env, Head(mapping).k, ignore_first),
                          env, Tail(mapping), ignore_first)])

\* an ignore_first that is None whatever first_repeat says
IgnoreFirst_never(env, first_codes) == <<>>

\* ignore_first = None if self.get_option("first_repeat") else first_codes
\* (an empty list stands for None: both are falsy in translate_code)
IgnoreFirst(env, first_codes) ==
    IF TruthyBool(get_option(env, "first_repeat")) THEN <<>> ELSE first_codes

\* a break appended whenever first_break is set
FirstBreak_whenever_set(env, first_codes) ==
    LET first_break == get_option(env, "first_break")
    IN IF TruthyStr(first_break)
       THEN << [code |-> "", name |-> force_str(env.language, Val(first_break), TRUE)] >>
       ELSE <<>>

\* if first_codes: first_break = ...; if first_break: results.append(...)
FirstBreak(env, first_codes) ==
    LET first_break == get_option(env, "first_break")
    IN IF first_codes # <<>> /\ TruthyStr(first_break)
       THEN << [code |-> "", name |-> force_str(env.language, Val(first_break), TRUE)] >>
       ELSE <<>>

\* The end of __iter__: the first block, the break and the sorted list of
\* all the countries.
ResultsAfterFirst(env, read, first_codes, firsts) ==
    Bind([ignore_first \in {IgnoreFirst(env, first_codes.ret)} |->
        Bind([translated \in {TranslateAll(Ret(firsts.self, <<>>), env, read.ret, ignore_first)} |->
            LET countries_first == IF TruthyBool(get_option(env, "first_sort"))
                                   THEN sorted(firsts.ret) ELSE firsts.ret
                break == FirstBreak(env, first_codes.ret)
            IN IF translated.exc # "" THEN translated
               ELSE Ret(translated.self,
                        countries_first \o break \o sorted(translated.ret))])])

\* The body of __iter__ after a cache miss: the list of records.
BuildResults(obj, env) ==
    Bind([resolved_first \in {_resolve_first_countries(env)},
          read \in {countries_get(obj, env)} |->
        IF read.exc # "" THEN read
        ELSE Bind([first_codes \in {FirstCodes(Ret(read.self, <<>>), env, resolved_first)} |->
                IF first_codes.exc # "" THEN first_codes
                ELSE Bind([firsts \in {TranslateFirst(Ret(first_codes.self, <<>>), env,
                                                      first_codes.ret)} |->
                        IF firsts.exc # "" THEN firsts
                        ELSE ResultsAfterFirst(env, read, first_codes, firsts)])])])

\* list(countries): the cached list of the key, or a new list, cached
iterate(obj0, env) ==
    Bind([cache_key \in {CacheKey(env)},
          obj1 \in {IF IsNone(obj0._iter_cache) THEN [obj0 EXCEPT !._iter_cache = Some({})]
                    ELSE obj0} |->
        IF ~KeyHashable(env) THEN Raise(obj1, "TypeError")
        ELSE IF CacheHas(Val(obj1._iter_cache), cache_key)
        THEN Ret(obj1, CacheGet(Val(obj1._iter_cache), cache_key))
        ELSE Bind([built \in {BuildResults(obj1, env)} |->
                IF built.exc # "" THEN built
                ELSE Ret([built.self EXCEPT
                            !._iter_cache = Some(CachePut(Val(built.self._iter_cache),
                                                          cache_key, built.ret))],
                         built.ret)])])

-----------------------------------------------------------------------------
(* Countries.__len__ and Countries.__getitem__.                            *)

\* Countries.__len__
__len__(obj, env) ==
    Bind([read \in {countries_get(obj, env)},
          resolved_first \in {_resolve_first_countries(env)} |->
        IF read.exc # "" THEN read
        ELSE Bind([first_codes \in {FirstCodes(Ret(read.self, <<>>), env, resolved_first)} |->
                IF first_codes.exc # "" THEN first_codes
                ELSE Ret(first_codes.self,
                         Len(read.ret) + Len(first_codes.ret)
                         + (IF first_codes.ret # <<>> /\ TruthyStr(get_option(env, "first_break"))
                            THEN 1 ELSE 0))])])

\* an int index, and a slice whose start, stop and step may be None
IntIndex(i) == [isslice |-> FALSE, i |-> i]

Slice(start, stop, step) == [isslice |-> TRUE, start |-> start, stop |-> stop, step |-> step]

\* an islice that takes every item from start to stop
islice_every_item(items, start, stop, step) ==
    [k \in 1..(IF stop > start THEN stop - start ELSE 0) |-> items[start + k]]

\* list(itertools.islice(items, start, stop, step)) for ints start >= 0,
\* stop >= 0 and step >= 1: the items at the positions start, start + step,
\* ... below stop and below the end (positions counted from 0)
islice(items, start, stop, step) ==
    LET end == IF stop < Len(items) THEN stop ELSE Len(items)
        count == IF end > start THEN (end - start + step - 1) \div step ELSE 0
    IN [k \in 1..count |-> items[start + (k - 1) * step + 1]]

\* Countries.__getitem__.  islice checks its arguments before the generator
\* runs; the generator runs up to its first yield, that is the whole of
\* __iter__, as soon as islice asks it for an item.  A TypeError, raised by
\* "index + 1" for a slice or by the generator, leads to the slice branch.
__getitem__(obj, env, index) ==
    IF ~index.isslice
    THEN IF index.i < 0 THEN Raise(obj, "ValueError")
         ELSE Bind([out \in {iterate(obj, env)} |->
                 IF out.exc = "TypeError" THEN Raise(out.self, "AttributeError")
                 ELSE IF out.exc # "" THEN out
                 ELSE IF index.i >= Len(out.ret) THEN Raise(out.self, "StopIteration")
                 ELSE Ret(out.self, out.ret[index.i + 1])])
    ELSE LET given == {index.start, index.stop, index.step} \ {None}
             start == IF IsNone(index.start) THEN 0 ELSE Val(index.start)
             step == IF IsNone(index.step) THEN 1 ELSE Val(index.step)
         IN IF (\E x \in given : Val(x) < 0) \/ step = 0 THEN Raise(obj, "ValueError")
            ELSE IF start = 0 /\ index.stop = Some(0) THEN Ret(obj, <<>>)
            ELSE Bind([out \in {iterate(obj, env)} |->
                    IF out.exc # "" THEN out
                    ELSE Ret(out.self,
                             islice(out.ret, start,
                                    IF IsNone(index.stop) THEN Len(out.ret) ELSE Val(index.stop),
                                    step))])

-----------------------------------------------------------------------------
(* The state machine.                                                      *)

Threads == {"t1", "t2"}

\* the deepest nesting of countries_context blocks explored
MaxDepth == 2

\* the most lists the iteration cache holds in the explored states
MaxCache == 2

\* the most old names kept for one code in the explored states
MaxShadowed == 2

\* django_countries.conf.Settings: the defaults
DefaultSettings ==
    [first |-> Some(<<>>), only |-> Some([isdict |-> TRUE, items |-> <<>>]),
     first_sort |-> Some(FALSE), first_repeat |-> Some(FALSE), first_break |-> None,
     first_by_language |-> Some(<<>>), first_auto_detect |-> Some(FALSE),
     common_names |-> Some(TRUE), override |-> Some(<<>>)]

\* a Countries class that sets no option
NoAttrs == [option \in OptionNames |-> None]

ThreadsInit ==
    /\ ctxOptions = [t \in Threads |-> None]
    /\ ctxFrames = [t \in Threads |-> <<>>]
    /\ ctxEntered = [t \in Threads |-> <<>>]
    /\ outerIter = [t \in Threads |-> None]
    /\ self = NewCountries
    /\ tables = [ALT_CODES |-> ALT_CODES, ISO_TO_IOC |-> ISO_TO_IOC]
    /\ other = NewCountries
    /\ last = [op |-> "init"]

\* translation.activate(lang) / deactivate_all()
Activate(t, lang) ==
    /\ language[t] # lang
    /\ language' = [language EXCEPT ![t] = lang]
    /\ last' = [op |-> "activate", t |-> t]
    /\ UNCHANGED <<tables, other, ctxOptions, ctxFrames, ctxEntered, outerIter, settings,
                 attrs, self>>

\* a block that adds its options to those of the enclosing block
EnterContext_merging(t, options) ==
    /\ Len(ctxFrames[t]) < MaxDepth
    /\ LET previous_context == ctxOptions[t] IN
       /\ ctxFrames' = [ctxFrames EXCEPT ![t] = Append(@, previous_context)]
       /\ ctxOptions' = [ctxOptions EXCEPT ![t] =
                            Some([option \in OptionNames |->
                                     IF options[option] # <<>> \/ IsNone(previous_context)
                                     THEN options[option]
                                     ELSE Val(previous_context)[option]])]
    /\ ctxEntered' = [ctxEntered EXCEPT ![t] = Append(@, ctxOptions[t])]
    /\ outerIter' = [outerIter EXCEPT ![t] = None]
    /\ last' = [op |-> "enter", t |-> t, options |-> options]
    /\ UNCHANGED <<tables, other, language, settings, attrs, self>>

\* with countries_context(**options): up to the yield
EnterContext(t, options) ==
    /\ Len(ctxFrames[t]) < MaxDepth
    /\ LET previous_context == ctxOptions[t] IN
       /\ ctxFrames' = [ctxFrames EXCEPT ![t] = Append(@, previous_context)]
       /\ ctxOptions' = [ctxOptions EXCEPT ![t] = Some(options)]
    /\ ctxEntered' = [ctxEntered EXCEPT ![t] = Append(@, ctxOptions[t])]
    /\ outerIter' = [outerIter EXCEPT ![t] =
                        IF ctxFrames[t] # <<>> THEN @
                        ELSE IF last.op = "iterate" /\ last.t = t /\ last.exc = ""
                        THEN Some([language |-> language[t], ret |-> last.ret])
                        ELSE None]
    /\ last' = [op |-> "enter", t |-> t, options |-> options]
    /\ UNCHANGED <<tables, other, language, settings, attrs, self>>

\* the finally clause testing "if previous_context:" instead of "is not None"
RestoredOptions_if_truthy(previous_context, current) ==
    IF ~IsNone(previous_context) /\ Val(previous_context) # NoOptions THEN previous_context
    ELSE IF ~IsNone(current) THEN None
    ELSE current

\* the finally clause of countries_context, when the innermost open block
\* of the thread is left (by its end or by an exception)
RestoredOptions(previous_context, current) ==
    IF ~IsNone(previous_context) THEN previous_context
    ELSE IF ~IsNone(current) THEN None
    ELSE current

ExitContext(t) ==
    /\ ctxFrames[t] # <<>>
    /\ LET previous_context == ctxFrames[t][Len(ctxFrames[t])] IN
       ctxOptions' = [ctxOptions EXCEPT ![t] = RestoredOptions(previous_context, @)]
    /\ ctxFrames' = [ctxFrames EXCEPT ![t] = SubSeq(@, 1, Len(@) - 1)]
    /\ ctxEntered' = [ctxEntered EXCEPT ![t] = SubSeq(@, 1, Len(@) - 1)]
    /\ last' = [op |-> "exit", t |-> t, before |-> ctxEntered[t][Len(ctxEntered[t])]]
    /\ UNCHANGED <<tables, other, language, outerIter, settings, attrs, self>>

\* countries.get_option(option)
GetOption(t, option) ==
    /\ last' = [op |-> "get_option", t |-> t, option |-> option,
                ret |-> get_option(Env(t), option)]
    /\ UNCHANGED <<tables, other, language, ctxOptions, ctxFrames, ctxEntered, outerIter,
                 settings, attrs, self>>

\* countries._resolve_first_countries()
ResolveFirst(t) ==
    /\ last' = [op |-> "resolve", t |-> t, ret |-> _resolve_first_countries(Env(t))]
    /\ UNCHANGED <<tables, other, language, ctxOptions, ctxFrames, ctxEntered, outerIter,
                 settings, attrs, self>>

\* the old names one code has collected so far
ShadowedLen(obj) ==
    IF IsNone(obj._shadowed_names) \/ ~DictHas(Val(obj._shadowed_names), "CZ") THEN 0
    ELSE Len(DictGet(Val(obj._shadowed_names), "CZ"))

\* the attributes that del countries.countries removes
CachedNames ==
    {"_countries", "_alt_codes", "_ioc_codes", "_flag_urls", "_shadowed_names", "_iter_cache"}

\* history: the operation before this one, with what it cleared if it was
\* an invalidation
Previous == IF last.op = "del" THEN [op |-> "del", cleared |-> last.cleared] ELSE [op |-> "other"]

\* countries.countries
ReadCountries(t) ==
    \E read \in {countries_get(self, Env(t))} :
    /\ ShadowedLen(read.self) <= MaxShadowed
    /\ self' = read.self
    /\ last' = [op |-> "countries", t |-> t, exc |-> read.exc, ret |-> read.ret,
                after |-> Previous]
    /\ UNCHANGED <<tables, other, language, ctxOptions, ctxFrames, ctxEntered, outerIter,
                 settings, attrs>>

\* del countries.countries
DelCountries(t) ==
    /\ self' = countries_del(self)
    /\ outerIter' = [u \in Threads |-> None]
    /\ last' = [op |-> "del", t |-> t, cleared |-> {attr \in CachedNames : ~IsNone(self[attr])}]
    /\ UNCHANGED <<tables, other, language, ctxOptions, ctxFrames, ctxEntered, settings, attrs>>

\* list(countries)
Iterate(t) ==
    \E out \in {iterate(self, Env(t))} :
    /\ ShadowedLen(out.self) <= MaxShadowed
    /\ Cardinality(Val(out.self._iter_cache)) <= MaxCache
    /\ self' = out.self
    /\ last' = [op |-> "iterate", t |-> t, exc |-> out.exc, ret |-> out.ret,
                after |-> Previous]
    /\ UNCHANGED <<tables, other, language, ctxOptions, ctxFrames, ctxEntered, outerIter,
                 settings, attrs>>

\* countries.alpha2(code)
Alpha2(t, code) ==
    \E out \in {alpha2(self, Env(t), code)} :
    /\ ShadowedLen(out.self) <= MaxShadowed
    /\ self' = out.self
    /\ last' = [op |-> "alpha2", t |-> t, code |-> code, exc |-> out.exc, ret |-> out.ret]
    /\ UNCHANGED <<tables, other, language, ctxOptions, ctxFrames, ctxEntered, outerIter,
                 settings, attrs>>

\* countries.ioc_code(code)
IocCode(t, code) ==
    \E out \in {ioc_code(self, Env(t), code)} :
    /\ ShadowedLen(out.self) <= MaxShadowed
    /\ self' = out.self
    /\ last' = [op |-> "ioc_code", t |-> t, code |-> code, exc |-> out.exc, ret |-> out.ret]
    /\ UNCHANGED <<tables, other, language, ctxOptions, ctxFrames, ctxEntered, outerIter,
                 settings, attrs>>

\* countries.flag_url(code)
FlagUrl(t, code) ==
    \E out \in {flag_url(self, Env(t), code)} :
    /\ ShadowedLen(out.self) <= MaxShadowed
    /\ self' = out.self
    /\ last' = [op |-> "flag_url", t |-> t, code |-> code, exc |-> out.exc, ret |-> out.ret]
    /\ UNCHANGED <<tables, other, language, ctxOptions, ctxFrames, ctxEntered, outerIter,
                 settings, attrs>>

\* countries.name(code)
Name(t, code) ==
    \E out \in {name(self, Env(t), code)} :
    /\ ShadowedLen(out.self) <= MaxShadowed
    /\ self' = out.self
    /\ last' = [op |-> "name", t |-> t, code |-> code, exc |-> out.exc, ret |-> out.ret]
    /\ UNCHANGED <<tables, other, language, ctxOptions, ctxFrames, ctxEntered, outerIter,
                 settings, attrs>>

\* countries.alpha3(code)
Alpha3(t, code) ==
    \E out \in {alpha3(self, Env(t), code)} :
    /\ ShadowedLen(out.self) <= MaxShadowed
    /\ self' = out.self
    /\ last' = [op |-> "alpha3", t |-> t, code |-> code, exc |-> out.exc, ret |-> out.ret]
    /\ UNCHANGED <<tables, other, language, ctxOptions, ctxFrames, ctxEntered, outerIter,
                 settings, attrs>>

\* countries.numeric(code, padded)
Numeric(t, code, padded) ==
    \E out \in {numeric(self, Env(t), code, padded)} :
    /\ ShadowedLen(out.self) <= MaxShadowed
    /\ self' = out.self
    /\ last' = [op |-> "numeric", t |-> t, code |-> code, padded |-> padded,
                exc |-> out.exc, ret |-> out.ret]
    /\ UNCHANGED <<tables, other, language, ctxOptions, ctxFrames, ctxEntered, outerIter,
                 settings, attrs>>

\* len(countries)
LenCountries(t) ==
    \E out \in {__len__(self, Env(t))} :
    /\ ShadowedLen(out.self) <= MaxShadowed
    /\ self' = out.self
    /\ last' = [op |-> "len", t |-> t, exc |-> out.exc, ret |-> out.ret]
    /\ UNCHANGED <<tables, other, language, ctxOptions, ctxFrames, ctxEntered, outerIter,
                 settings, attrs>>

\* countries[index], for an int or a slice
GetItem(t, index) ==
    \E out \in {__getitem__(self, Env(t), index)} :
    /\ ShadowedLen(out.self) <= MaxShadowed
    /\ ~IsNone(out.self._iter_cache) => Cardinality(Val(out.self._iter_cache)) <= MaxCache
    /\ self' = out.self
    /\ last' = [op |-> "getitem", t |-> t, index |-> index, exc |-> out.exc, ret |-> out.ret]
    /\ UNCHANGED <<tables, other, language, ctxOptions, ctxFrames, ctxEntered, outerIter,
                 settings, attrs>>

\* the two instances: countries, with the attributes attrs, and another
\* one without attributes
Instances == {"self", "other"}

InstanceOf(who) == IF who = "self" THEN self ELSE other

EnvOf(who) == IF who = "self" THEN Env("t1") ELSE [Env("t1") EXCEPT !.attrs = NoAttrs]

\* instance.alt_codes
ReadAltCodes(who) ==
    \E out \in {alt_codes_shared(InstanceOf(who), EnvOf(who), tables.ALT_CODES)} :
    /\ self' = IF who = "self" THEN out.self ELSE self
    /\ other' = IF who = "other" THEN out.self ELSE other
    /\ tables' = [tables EXCEPT !.ALT_CODES = out.base]
    /\ last' = [op |-> "alt_codes", who |-> who, exc |-> out.exc, ret |-> out.ret]
    /\ UNCHANGED <<language, ctxOptions, ctxFrames, ctxEntered, outerIter, settings, attrs>>

\* instance.ioc_codes
ReadIocCodes(who) ==
    \E out \in {ioc_codes_shared(InstanceOf(who), EnvOf(who), tables.ISO_TO_IOC)} :
    /\ self' = IF who = "self" THEN out.self ELSE self
    /\ other' = IF who = "other" THEN out.self ELSE other
    /\ tables' = [tables EXCEPT !.ISO_TO_IOC = out.base]
    /\ last' = [op |-> "ioc_codes", who |-> who, exc |-> out.exc, ret |-> out.ret]
    /\ UNCHANGED <<language, ctxOptions, ctxFrames, ctxEntered, outerIter, settings, attrs>>

\* del instance.countries
DelInstance(who) ==
    /\ InstanceOf(who) # NewCountries
    /\ self' = IF who = "self" THEN countries_del(self) ELSE self
    /\ other' = IF who = "other" THEN countries_del(other) ELSE other
    /\ last' = [op |-> "del", who |-> who]
    /\ UNCHANGED <<tables, language, ctxOptions, ctxFrames, ctxEntered, outerIter, settings,
                   attrs>>

\* the project's settings are replaced (as the tests do with self.settings)
SetSettings(new) ==
    /\ settings # new
    /\ settings' = new
    /\ outerIter' = [u \in Threads |-> None]
    /\ last' = [op |-> "settings"]
    /\ UNCHANGED <<tables, other, language, ctxOptions, ctxFrames, ctxEntered, attrs, self>>

-----------------------------------------------------------------------------
(* The specification of iteration: under settings that stay as they are,   *)
(* one thread activates languages, enters and leaves countries_context     *)
(* blocks, reads and invalidates the mapping and iterates.                 *)

Languages == {Some("en"), Some("fr-ca")}

SettingsPool ==
    { [DefaultSettings EXCEPT !.first = Some(<<"US", "AU", "fra">>)],
      [DefaultSettings EXCEPT !.first = Some(<<"US", "CA">>),
                              !.first_sort = Some(TRUE),
                              !.first_break = Some("-----")],
      [DefaultSettings EXCEPT !.first_by_language = Some(<< [k |-> "fr", v |-> <<"FR", "CA">>] >>),
                              !.first_auto_detect = Some(TRUE)],
      [DefaultSettings EXCEPT !.override = Some(<< [k |-> "CA", v |-> None],
                                                   [k |-> "XX", v |-> Some(PlainName("Neverland"))] >>),
                              !.first = Some(<<"XX", "CA">>)] }

ContextPool ==
    { [NoOptions EXCEPT !.first = Some(Some(<<"FR", "CZ">>))],
      [NoOptions EXCEPT !.only = Some(Some([isdict |-> FALSE,
                                            items |-> << [code |-> "US", name |-> None],
                                                         [code |-> "NV", name |-> Some(PlainName("Neverland"))] >>])),
                        !.first = Some(Some(<<"NV">>))],
      [NoOptions EXCEPT !.first_by_language = Some(Some(<< [k |-> "fr", v |-> <<"CA">>] >>))] }

Init ==
    /\ ThreadsInit
    /\ language \in [Threads -> {Some("en")}]
    /\ settings \in SettingsPool
    /\ attrs = NoAttrs

Next ==
    \/ \E lang \in Languages : Activate("t1", lang)
    \/ \E options \in ContextPool : EnterContext("t1", options)
    \/ ExitContext("t1")
    \/ ReadCountries("t1")
    \/ DelCountries("t1")
    \/ Iterate("t1")

Spec == Init /\ [][Next]_vars

-----------------------------------------------------------------------------
(* The specification of option resolution and of the context manager: one  *)
(* thread nests countries_context blocks, asks for options and iterates.   *)

NestedContexts ==
    { NoOptions,
      [NoOptions EXCEPT !.first = Some(Some(<<"FR", "CZ">>))],
      [NoOptions EXCEPT !.first = Some(None), !.first_sort = Some(Some(FALSE))] }

\* what another thread sets meanwhile
OtherThreadContexts == { [NoOptions EXCEPT !.first = Some(Some(<<"GB">>))] }

AttrsPool == { NoAttrs, [NoAttrs EXCEPT !.first = Some(<<"CZ">>), !.first_sort = Some(FALSE)] }

AskedOptions == {"first", "first_sort", "only"}

InitContext ==
    /\ ThreadsInit
    /\ language \in [Threads -> {Some("en")}]
    /\ settings = [DefaultSettings EXCEPT !.first = Some(<<"US", "CA">>),
                                          !.first_sort = Some(TRUE)]
    /\ attrs \in AttrsPool

NextContext ==
    \/ \E options \in NestedContexts : EnterContext("t1", options)
    \/ ExitContext("t1")
    \/ \E options \in OtherThreadContexts : ctxFrames["t2"] = <<>> /\ EnterContext("t2", options)
    \/ ExitContext("t2")
    \/ \E option \in AskedOptions : GetOption("t1", option)
    \/ Iterate("t1")

SpecContext == InitContext /\ [][NextContext]_vars

-----------------------------------------------------------------------------
(* The specification of the mapping cache: the mapping and the tables      *)
(* derived from it are read and invalidated while the project's settings   *)
(* are replaced now and then.                                              *)

CacheSettings ==
    { DefaultSettings,
      [DefaultSettings EXCEPT !.override = Some(<< [k |-> "CA", v |-> None],
                                                   [k |-> "XX", v |-> Some(PlainName("Neverland"))] >>),
                              !.first = Some(<<"XX">>)] }

CacheContexts ==
    { [NoOptions EXCEPT !.only = Some(Some([isdict |-> FALSE,
                                            items |-> << [code |-> "US", name |-> None],
                                                         [code |-> "FR", name |-> None] >>]))] }

LookedUp == {"can"}

InitCache ==
    /\ ThreadsInit
    /\ language \in [Threads -> {Some("en")}]
    /\ settings = DefaultSettings
    /\ attrs = NoAttrs

NextCache ==
    \/ \E options \in CacheContexts : ctxFrames["t1"] = <<>> /\ EnterContext("t1", options)
    \/ ExitContext("t1")
    \/ ReadCountries("t1")
    \/ DelCountries("t1")
    \/ Iterate("t1")
    \/ \E code \in LookedUp : Alpha2("t1", code)
    \/ \E code \in LookedUp : IocCode("t1", code)
    \/ \E code \in LookedUp : FlagUrl("t1", code)
    \/ \E new \in CacheSettings : SetSettings(new)

SpecCache == InitCache /\ [][NextCache]_vars

-----------------------------------------------------------------------------
(* The specification of first-country resolution: the settings, the        *)
(* language and the context are drawn from the sets below and              *)
(* _resolve_first_countries is applied to them.                            *)

ResolveLanguages ==
    {None, Some("en"), Some("fr"), Some("fr-ca"), Some("fr_CA"), Some("fr-be"),
     Some("en-au"), Some("zh-hans-cn"), Some("fr-")}

ResolveByLanguage ==
    { <<>>,
      << [k |-> "fr", v |-> <<"FR", "BE">>] >>,
      << [k |-> "fr", v |-> <<"FR", "BE">>], [k |-> "fr-CA", v |-> <<"CA", "US">>] >>,
      << [k |-> "de", v |-> <<"DE">>] >>,
      << [k |-> "fr", v |-> <<"FR", "BE", "FR">>] >> }

ResolveFirstLists == { <<>>, <<"US">>, <<"US", "AU">> }

ResolveContexts ==
    { [NoOptions EXCEPT !.first_auto_detect = Some(Some(TRUE))],
      [NoOptions EXCEPT !.first = Some(Some(<<"CA">>))],
      [NoOptions EXCEPT !.first = Some(Some(<<"CA">>)), !.first_by_language = Some(Some(<<>>))] }

InitResolve ==
    /\ ThreadsInit
    /\ language \in [Threads -> {Some("en")}]
    /\ \E first \in ResolveFirstLists, by_language \in ResolveByLanguage, auto \in BOOLEAN :
         settings = [DefaultSettings EXCEPT !.first = Some(first),
                                            !.first_by_language = Some(by_language),
                                            !.first_auto_detect = Some(auto)]
    /\ attrs = NoAttrs

NextResolve ==
    \/ \E lang \in ResolveLanguages : Activate("t1", lang)
    \/ \E options \in ResolveContexts : EnterContext("t1", options)
    \/ ExitContext("t1")
    \/ ResolveFirst("t1")

SpecResolve == InitResolve /\ [][NextResolve]_vars

-----------------------------------------------------------------------------
(* The specification of the list of choices: under settings drawn from the *)
(* sets below and with English or Canadian French active, one thread       *)
(* enters and leaves a countries_context block, iterates, takes the length *)
(* and indexes.                                                            *)

\* the greatest index and slice bound asked for
MaxIndex == 2

\* no override, and one that gives CZ two names and adds XX under the name
\* that FR has
ListOverrides ==
    { <<>>,
      << [k |-> "CZ", v |-> Some([EmptyDictName EXCEPT
                                     !.names = Some(<<"Czechia", "Czech Republic">>)])],
         [k |-> "XX", v |-> Some(PlainName("France"))] >> }

ListSettings ==
    { [DefaultSettings EXCEPT !.first_break = break] : break \in {None, Some("-----")} }
    \cup
    { [DefaultSettings EXCEPT !.first = Some(<<"CZ", "US">>), !.first_repeat = Some(repeat),
                              !.first_break = break, !.override = Some(override)] :
        repeat \in BOOLEAN, break \in {None, Some("-----")}, override \in ListOverrides }
    \cup
    { [DefaultSettings EXCEPT !.first = Some(<<"US">>),
                              !.first_by_language = Some(<< [k |-> "fr", v |-> <<"FR", "CA">>] >>),
                              !.first_auto_detect = Some(auto),
                              !.first_break = Some("-----")] : auto \in BOOLEAN }

ListContexts ==
    { [NoOptions EXCEPT !.first = Some(Some(<<"FR">>)), !.first_repeat = Some(Some(TRUE))],
      [NoOptions EXCEPT !.only = Some(Some([isdict |-> FALSE,
                                            items |-> << [code |-> "US", name |-> None],
                                                         [code |-> "NV",
                                                          name |-> Some(PlainName("Neverland"))] >>])),
                        !.first = Some(Some(<<"NV">>))] }

Indexes ==
    { IntIndex(i) : i \in 0..MaxIndex }
    \cup { Slice(None, Some(0), None), Slice(Some(1), None, None), Slice(None, None, Some(2)),
           Slice(Some(1), Some(MaxIndex + 1), Some(2)) }

InitList ==
    /\ ThreadsInit
    /\ language \in [Threads -> Languages]
    /\ language["t2"] = Some("en")
    /\ settings \in ListSettings
    /\ attrs = NoAttrs

NextList ==
    \/ \E options \in ListContexts : ctxFrames["t1"] = <<>> /\ EnterContext("t1", options)
    \/ ExitContext("t1")
    \/ Iterate("t1")
    \/ LenCountries("t1")
    \/ \E index \in Indexes : GetItem("t1", index)

SpecList == InitList /\ [][NextList]_vars

-----------------------------------------------------------------------------
(* The specification of code lookups: alpha2 is called with codes of every *)
(* form, under overrides that remove, add and redefine countries, inside   *)
(* and outside a context that restricts the list.                          *)

\* COUNTRIES_OVERRIDE: none; a country removed and one added under a plain
\* name; a new country whose name dict carries alpha3 and numeric; a
\* custom code shaped like an alpha-3 code; a country of the table given
\* another alpha3
LookupOverrides ==
    { <<>>,
      << [k |-> "CA", v |-> None],
         [k |-> "XX", v |-> Some(PlainName("Neverland"))] >>,
      << [k |-> "XK", v |-> Some([EmptyDictName EXCEPT !.name = Some("Kosovo"),
                                                       !.alpha3 = Some("XKX"),
                                                       !.numeric = Some(900),
                                                       !.ioc_code = Some("KOS"),
                                                       !.flag_url = Some("flags/xk.gif")])] >>,
      << [k |-> "CAN", v |-> Some(PlainName("Canada Dry"))] >>,
      << [k |-> "FR", v |-> Some([EmptyDictName EXCEPT !.name = Some("France"),
                                                       !.alpha3 = Some("FXX")])] >> }

LookupSettings == { [DefaultSettings EXCEPT !.override = Some(override)] : override \in LookupOverrides }

\* countries_context(only=[...]) with a country of the table and a new one
LookupContexts ==
    { [NoOptions EXCEPT !.only = Some(Some([isdict |-> FALSE,
                                            items |-> << [code |-> "US", name |-> None],
                                                         [code |-> "NV",
                                                          name |-> Some(PlainName("Neverland"))] >>]))] }

\* the codes looked up: alpha-2 in either case, alpha-3, numeric with and
\* without padding, codes of no country and codes of other lengths
LookupCodes == {"ca", "US", "can", "Xkx", "fra", "124", "0124", "900", "zzz", "999", "zz", "fran", ""}

InitLookup ==
    /\ ThreadsInit
    /\ language \in [Threads -> {Some("en")}]
    /\ settings \in LookupSettings
    /\ attrs = NoAttrs

NextLookup ==
    \/ \E options \in LookupContexts : ctxFrames["t1"] = <<>> /\ EnterContext("t1", options)
    \/ ExitContext("t1")
    \/ ReadCountries("t1")
    \/ DelCountries("t1")
    \/ \E code \in LookupCodes : Alpha2("t1", code)

SpecLookup == InitLookup /\ [][NextLookup]_vars

-----------------------------------------------------------------------------
(* The specification of the values looked up by code: the name, the        *)
(* alternate codes, the IOC code and the flag URL, for codes of countries  *)
(* of the mapping and for codes of none, under the same overrides and      *)
(* context.                                                                *)

\* the codes asked for: countries of the table, the added ones, an alpha-3
\* code, and codes of no country
ValueCodes == {"ca", "fr", "xk", "Xkx", "nv", "zz", "zzz", "999"}

NextValues ==
    \/ \E options \in LookupContexts : ctxFrames["t1"] = <<>> /\ EnterContext("t1", options)
    \/ ExitContext("t1")
    \/ DelCountries("t1")
    \/ \E code \in ValueCodes : Name("t1", code)
    \/ \E code \in ValueCodes : Alpha3("t1", code)
    \/ \E code \in ValueCodes, padded \in BOOLEAN : Numeric("t1", code, padded)
    \/ \E code \in ValueCodes : IocCode("t1", code)
    \/ \E code \in ValueCodes : FlagUrl("t1", code)

SpecValues == InitLookup /\ [][NextValues]_vars

-----------------------------------------------------------------------------
(* The specification of the effective mapping: it is built under every     *)
(* combination of only, common_names and override below, read, iterated    *)
(* and asked for names, inside and outside a context that restricts it.    *)

\* COUNTRIES_OVERRIDE: none; a country with a common name removed and a
\* new one added; a country with an old name renamed and one removed
BuildOverrides ==
    { <<>>,
      << [k |-> "GB", v |-> None],
         [k |-> "XX", v |-> Some(PlainName("Neverland"))] >>,
      << [k |-> "CZ", v |-> Some(PlainName("Bohemia"))],
         [k |-> "CA", v |-> None] >> }

\* COUNTRIES_ONLY: unset; bare codes; a bare code and a pair, for a new
\* code and for a code of the table; pairs only; a dict of names
BuildOnly ==
    { [isdict |-> TRUE, items |-> <<>>],
      [isdict |-> FALSE, items |-> << [code |-> "CA", name |-> None],
                                     [code |-> "GB", name |-> Some(PlainName("Britain"))] >>],
      [isdict |-> FALSE, items |-> << [code |-> "GB", name |-> None],
                                     [code |-> "CA", name |-> None],
                                     [code |-> "CZ", name |-> None] >>],
      [isdict |-> FALSE, items |-> << [code |-> "CA", name |-> None],
                                     [code |-> "NV", name |-> Some(PlainName("Neverland"))] >>],
      [isdict |-> FALSE, items |-> << [code |-> "GB", name |-> Some(PlainName("Britain"))],
                                     [code |-> "NV", name |-> Some(PlainName("Neverland"))] >>],
      [isdict |-> TRUE, items |-> << [code |-> "CA", name |-> Some(PlainName("Canada"))],
                                    [code |-> "FR", name |-> Some(PlainName("France"))] >>] }

BuildSettings ==
    { [DefaultSettings EXCEPT !.override = Some(override), !.only = Some(only),
                              !.common_names = Some(common_names)] :
        override \in BuildOverrides, only \in BuildOnly, common_names \in BOOLEAN }

\* countries_context(only=[...]) with bare codes
BuildContexts ==
    { [NoOptions EXCEPT !.only = Some(Some([isdict |-> FALSE,
                                            items |-> << [code |-> "US", name |-> None],
                                                         [code |-> "CA", name |-> None],
                                                         [code |-> "CZ", name |-> None] >>]))] }

\* the codes whose names are asked for
BuildCodes == {"GB", "CA", "CZ", "XX", "NV"}

InitBuild ==
    /\ ThreadsInit
    /\ language \in [Threads -> {Some("en")}]
    /\ settings \in BuildSettings
    /\ attrs = NoAttrs

NextBuild ==
    \/ \E options \in BuildContexts : ctxFrames["t1"] = <<>> /\ EnterContext("t1", options)
    \/ ExitContext("t1")
    \/ ReadCountries("t1")
    \/ Iterate("t1")
    \/ \E code \in BuildCodes : Name("t1", code)

SpecBuild == InitBuild /\ [][NextBuild]_vars

-----------------------------------------------------------------------------
(* The specification of two threads sharing the countries instance: each   *)
(* enters and leaves blocks of countries_context, asks for options and     *)
(* iterates, in every interleaving.                                        *)

\* the blocks of the first thread, which may be nested
FirstThreadContexts ==
    { [NoOptions EXCEPT !.first = Some(Some(<<"FR", "CZ">>)), !.first_repeat = Some(Some(TRUE))],
      [NoOptions EXCEPT !.first_break = Some(Some("-----"))] }

\* the blocks of the second thread
SecondThreadContexts ==
    { [NoOptions EXCEPT !.first = Some(Some(<<"GB">>))],
      [NoOptions EXCEPT !.only = Some(Some([isdict |-> FALSE,
                                            items |-> << [code |-> "US", name |-> None],
                                                         [code |-> "CA", name |-> None] >>]))] }

ThreadOptions == {"first", "only", "first_break"}

InitThreads ==
    /\ ThreadsInit
    /\ language \in [Threads -> {Some("en")}]
    /\ settings = [DefaultSettings EXCEPT !.first = Some(<<"US">>)]
    /\ attrs = NoAttrs

NextThreads ==
    \/ \E options \in FirstThreadContexts : EnterContext("t1", options)
    \/ \E options \in SecondThreadContexts : ctxFrames["t2"] = <<>> /\ EnterContext("t2", options)
    \/ \E t \in Threads : ExitContext(t)
    \/ \E t \in Threads, option \in ThreadOptions : GetOption(t, option)
    \/ \E t \in Threads : Iterate(t)
    \/ DelCountries("t1")

SpecThreads == InitThreads /\ [][NextThreads]_vars

-----------------------------------------------------------------------------
(* The specification of the shared tables: an instance whose attribute     *)
(* override carries alpha3, numeric or ioc_code and an instance without    *)
(* attributes compute and invalidate alt_codes and ioc_codes in any order. *)

\* the override attribute of the first instance: a new country with every
\* code; the IOC code of a country of the table; the alpha-3 code of a
\* country of the table
MetadataOverrides ==
    { << [k |-> "XK", v |-> Some([EmptyDictName EXCEPT !.name = Some("Kosovo"),
                                                       !.alpha3 = Some("XKX"),
                                                       !.numeric = Some(900),
                                                       !.ioc_code = Some("KOS")])] >>,
      << [k |-> "FR", v |-> Some([EmptyDictName EXCEPT !.ioc_code = Some("FRE")])] >>,
      << [k |-> "CA", v |-> Some([EmptyDictName EXCEPT !.name = Some("Canada"),
                                                       !.alpha3 = Some("CDN")])],
         [k |-> "XK", v |-> Some([EmptyDictName EXCEPT !.name = Some("Kosovo"),
                                                       !.numeric = Some(900)])] >> }

InitTables ==
    /\ ThreadsInit
    /\ language \in [Threads -> {Some("en")}]
    /\ settings = DefaultSettings
    /\ attrs \in { [NoAttrs EXCEPT !.override = Some(override)] : override \in MetadataOverrides }

NextTables ==
    \/ \E who \in Instances : ReadAltCodes(who)
    \/ \E who \in Instances : ReadIocCodes(who)
    \/ \E who \in Instances : DelInstance(who)

SpecTables == InitTables /\ [][NextTables]_vars

-----------------------------------------------------------------------------
(* Option resolution and the context manager (SpecContext).                *)

\* C1: get_option returns the value the context gives the option if the
\* thread has a non-empty context naming it (whatever the value), else
\* the instance attribute if it is not None, else the global setting.
C1_OptionOrder ==
    last.op = "get_option" =>
        LET ctx == ctxOptions[last.t]
            named == /\ ctx # <<>>
                     /\ ctx[1] # NoOptions
                     /\ ctx[1][last.option] # <<>>
        IN last.ret = IF named THEN ctx[1][last.option][1]
                      ELSE IF attrs[last.option] # None THEN attrs[last.option]
                      ELSE settings[last.option]

\* the context gives first the value None, which wins over the attribute
C1_Witness ==
    /\ last.op = "get_option"
    /\ last.option = "first"
    /\ ctxOptions[last.t] # <<>>
    /\ ctxOptions[last.t][1]["first"] = <<None>>
    /\ attrs["first"] # None
    /\ last.ret = None

\* C2: when a block exits, the thread's context options are those in force
\* just before the block was entered; after the outermost block no options
\* are set and iteration returns what it returned before the block.
C2_ContextRestored ==
    [][/\ \A t \in Threads :
            Len(ctxFrames'[t]) < Len(ctxFrames[t])
            => /\ ctxOptions'[t] = ctxEntered[t][Len(ctxEntered[t])]
               /\ (ctxFrames'[t] = <<>> => IsNone(ctxOptions'[t]))
       /\ (/\ last'.op = "iterate"
           /\ ctxFrames[last'.t] = <<>>
           /\ ~IsNone(outerIter[last'.t])
           /\ Val(outerIter[last'.t]).language = language[last'.t])
          => (last'.exc = "" /\ last'.ret = Val(outerIter[last'.t]).ret)
      ]_vars

\* an inner block has exited and the options of the enclosing block are back
C2_Witness ==
    /\ last.op = "exit"
    /\ Len(ctxFrames[last.t]) = 1
    /\ ~IsNone(ctxOptions[last.t])
    /\ ctxOptions[last.t] = last.before

-----------------------------------------------------------------------------
(* The iteration cache and the first block (Spec).                         *)

\* C3: every iteration yields what an uncached computation yields under
\* the language, the resolved first list and the context in force.
C3_CachedAsUncached ==
    last.op = "iterate" =>
        LET uncached == BuildResults(self, Env(last.t))
        IN last.exc = uncached.exc /\ last.ret = uncached.ret

\* C6: iteration starts with the first block: the resolved first codes,
\* normalised, that are in the effective mapping, in the order of the list
\* (first_sort off) or ordered by translated name (first_sort on).
NormalCode(mapping, code) ==
    LET upper == str_upper(code)
        hits == {i \in 1..Len(ALT_CODES) :
                    \/ ALT_CODES[i].v[1] = upper
                    \/ (str_isdigit(upper) /\ ALT_CODES[i].v[2] = Some(str_int(upper)))}
    IN IF DictHas(mapping, upper) THEN upper
       ELSE IF hits # {} /\ DictHas(mapping, ALT_CODES[CHOOSE i \in hits : TRUE].k)
       THEN ALT_CODES[CHOOSE i \in hits : TRUE].k
       ELSE ""

RECURSIVE ExpectedFirst(_, _)
ExpectedFirst(mapping, codes) ==
    IF codes = <<>> THEN <<>>
    ELSE (IF NormalCode(mapping, Head(codes)) # "" THEN <<NormalCode(mapping, Head(codes))>>
          ELSE <<>>) \o ExpectedFirst(mapping, Tail(codes))

-----------------------------------------------------------------------------
(* The mapping cache and its invalidation (SpecCache).                     *)

ReadingOps == {"countries", "iterate", "alpha2", "ioc_code", "flag_url"}

\* C4: the mapping is not built before the first read; outside a context
\* that overrides only, a later read returns the cached mapping without
\* rebuilding it, also after the settings changed, until it is invalidated.
C4_MappingCached ==
    /\ IsNone(self._countries)
    /\ [][/\ (IsNone(self._countries) /\ ~IsNone(self'._countries)) => last'.op \in ReadingOps
          /\ (~IsNone(self._countries) /\ last'.op # "del") => self'._countries = self._countries
          /\ (/\ last'.op = "countries"
              /\ ~IsNone(self._countries)
              /\ ~(ctxOptions[last'.t] # <<>> /\ ctxOptions[last'.t][1]["only"] # <<>>))
             => (last'.exc = "" /\ last'.ret = Val(self._countries) /\ self' = self)
         ]_vars

\* a read returned the cached mapping although the settings in force would
\* now give another one
C4_Witness ==
    /\ last.op = "countries"
    /\ ctxOptions[last.t] = <<>>
    /\ last.ret = Val(self._countries)
    /\ last.ret # _build_countries_dict(NewCountries, Env(last.t)).ret

\* the code is a key of the mapping unless the override removes it, and a
\* code the override adds is a key
OverrideVisible(mapping) ==
    LET override == Val(settings.override)
    IN /\ DictHas(mapping, "XX") <=> (DictHas(override, "XX") /\ ~IsNone(DictGet(override, "XX")))
       /\ DictHas(mapping, "CA") <=> ~(DictHas(override, "CA") /\ IsNone(DictGet(override, "CA")))

\* C5: after del countries.countries the cached attributes are all absent
\* and the next read or iteration is computed from the settings in force.
C5_Invalidated ==
    /\ last.op = "del" => \A attr \in CachedNames : IsNone(self[attr])
    /\ (last.op = "countries" /\ last.after.op = "del")
       => /\ last.exc = countries_get(NewCountries, Env(last.t)).exc
          /\ last.ret = countries_get(NewCountries, Env(last.t)).ret
          /\ (ctxOptions[last.t] = <<>> => OverrideVisible(last.ret))
    /\ (last.op = "iterate" /\ last.after.op = "del")
       => /\ last.exc = iterate(NewCountries, Env(last.t)).exc
          /\ last.ret = iterate(NewCountries, Env(last.t)).ret

\* everything was cached, the cache was invalidated and the next read
\* shows the override that is now in force
C5_Witness ==
    /\ last.op = "countries"
    /\ last.after.op = "del"
    /\ last.after.cleared = CachedNames
    /\ ctxOptions[last.t] = <<>>
    /\ DictHas(last.ret, "XX")
    /\ ~DictHas(last.ret, "CA")

-----------------------------------------------------------------------------
(* What the claims about resolution speak of.                              *)

\* the options in force for the thread of the last call
AutoDetectOn(t) == get_option(Env(t), "first_auto_detect") = Some(TRUE)

ByLanguageInForce(t) ==
    LET opt == get_option(Env(t), "first_by_language")
    IN IF IsNone(opt) THEN <<>> ELSE Val(opt)

StaticFirst(t) ==
    LET opt == get_option(Env(t), "first")
    IN IF IsNone(opt) THEN <<>> ELSE Val(opt)

IsSeparator(c) == c = "-" \/ c = "_"

\* a locale of the form lang-CC or lang_CC: one separator, with text on both sides
LangCountryForm(lang) ==
    /\ ~IsNone(lang)
    /\ Cardinality({i \in 1..Len(Val(lang)) : IsSeparator(CharAt(Val(lang), i))}) = 1
    /\ ~IsSeparator(CharAt(Val(lang), 1))
    /\ ~IsSeparator(CharAt(Val(lang), Len(Val(lang))))

SeparatorAt(lang) == CHOOSE i \in 1..Len(Val(lang)) : IsSeparator(CharAt(Val(lang), i))

LocaleCountry(lang) == str_upper(SubSeq(Val(lang), SeparatorAt(lang) + 1, Len(Val(lang))))

\* the language part of a locale: the text before its first separator, if any
LocaleLanguage(lang) ==
    LET l == Val(lang)
        seps == {i \in 1..Len(l) : IsSeparator(CharAt(l, i))}
    IN str_lower(IF seps = {} THEN l
                 ELSE SubSeq(l, 1, (CHOOSE i \in seps : \A j \in seps : i <= j) - 1))

\* the keys of the mapping that equal the text, compared case-insensitively
KeysMatching(by_language, text) ==
    {i \in 1..Len(by_language) : str_lower(by_language[i].k) = str_lower(text)}

HasExactEntry(t) ==
    ~IsNone(language[t]) /\ KeysMatching(ByLanguageInForce(t), Val(language[t])) # {}

HasBaseEntry(t) ==
    ~IsNone(language[t]) /\ KeysMatching(ByLanguageInForce(t), LocaleLanguage(language[t])) # {}

BaseGroup(t) ==
    LET by_language == ByLanguageInForce(t)
    IN by_language[CHOOSE i \in KeysMatching(by_language, LocaleLanguage(language[t])) : TRUE].v

ExactGroup(t) ==
    LET by_language == ByLanguageInForce(t)
    IN by_language[CHOOSE i \in KeysMatching(by_language, Val(language[t])) : TRUE].v

Without(codes, code) == SelectSeq(codes, LAMBDA c : c # code)

\* codes with every entry removed that repeats an earlier one
RECURSIVE FirstOccurrences(_)
FirstOccurrences(codes) ==
    IF codes = <<>> THEN <<>>
    ELSE LET front == FirstOccurrences(SubSeq(codes, 1, Len(codes) - 1))
         IN IF InList(codes[Len(codes)], front) THEN front
            ELSE Append(front, codes[Len(codes)])

Resolved == last.op = "resolve"

\* the case of C7: a mapping with a base-language group, auto-detect on, a
\* locale lang-CC without an exact entry
AutoPrependCase ==
    /\ Resolved
    /\ AutoDetectOn(last.t)
    /\ LangCountryForm(language[last.t])
    /\ ~HasExactEntry(last.t)
    /\ HasBaseEntry(last.t)

\* C7 as stated: the resolved first list is CC followed by the base-language
\* group in its order with the later occurrences of CC removed.
C7_AsStated ==
    AutoPrependCase =>
        last.ret = <<LocaleCountry(language[last.t])>>
                   \o Without(BaseGroup(last.t), LocaleCountry(language[last.t]))

\* C7 (amended): the resolved first list is CC followed by the base-language
\* group in its order with every entry removed that repeats CC or an earlier
\* entry of the group, so CC appears exactly once and at the front.
C7_AutoPrepend ==
    AutoPrependCase =>
        /\ last.ret = <<LocaleCountry(language[last.t])>>
                      \o Without(FirstOccurrences(BaseGroup(last.t)),
                                 LocaleCountry(language[last.t]))
        /\ Cardinality({i \in 1..Len(last.ret) :
                            last.ret[i] = LocaleCountry(language[last.t])}) = 1

C7_Witness ==
    /\ AutoPrependCase
    /\ InList(LocaleCountry(language[last.t]), BaseGroup(last.t))
    /\ Len(last.ret) = Len(BaseGroup(last.t))
    /\ last.ret[1] = "BE"

\* C8: with a key equal to the active locale but for case, the resolved
\* first list is that key's list, whether auto-detect is on or off.
C8_ExactLocale ==
    (Resolved /\ HasExactEntry(last.t)) => last.ret = ExactGroup(last.t)

C8_Witness ==
    /\ Resolved
    /\ HasExactEntry(last.t)
    /\ language[last.t] = Some("fr-ca")
    /\ AutoDetectOn(last.t)
    /\ HasBaseEntry(last.t)
    /\ last.ret = <<"CA", "US">>

\* C9: with auto-detect on and a locale lang-CC that has neither an exact
\* nor a base-language entry, the resolved first list is CC followed by the
\* static first list without the later occurrences of CC, whether the
\* language mapping is empty or not.
C9_AutoDetectStatic ==
    (/\ Resolved
     /\ AutoDetectOn(last.t)
     /\ LangCountryForm(language[last.t])
     /\ ~HasExactEntry(last.t)
     /\ ~HasBaseEntry(last.t))
    => last.ret = <<LocaleCountry(language[last.t])>>
                  \o Without(StaticFirst(last.t), LocaleCountry(language[last.t]))

\* the case of C10: auto-detect off, no active language, or a locale
\* without a country part
NoDetectCase ==
    /\ Resolved
    /\ \/ ~AutoDetectOn(last.t)
       \/ IsNone(language[last.t])
       \/ \A i \in 1..Len(Val(language[last.t])) : ~IsSeparator(CharAt(Val(language[last.t]), i))

\* C10: then the resolved first list is the exact-locale entry if there is
\* one, else the base-language entry if there is one, else the static list.
C10_NoDetect ==
    NoDetectCase =>
        last.ret = IF HasExactEntry(last.t) THEN ExactGroup(last.t)
                   ELSE IF HasBaseEntry(last.t) THEN BaseGroup(last.t)
                   ELSE StaticFirst(last.t)

C10_Witness ==
    /\ NoDetectCase
    /\ ~AutoDetectOn(last.t)
    /\ language[last.t] = Some("fr-be")
    /\ last.ret = <<"FR", "BE">>

-----------------------------------------------------------------------------
(* Contexts and the language mapping (SpecResolve).                        *)

\* the thread is inside a context that names the option
ContextNames(t, option) ==
    /\ ~IsNone(ctxOptions[t])
    /\ ctxOptions[t][1] # NoOptions
    /\ ctxOptions[t][1][option] # <<>>

\* the entry of the language mapping in force that matches the active
\* language: the exact one if there is one, else the base-language one
MatchingEntry(t) == IF HasExactEntry(t) THEN ExactGroup(t) ELSE BaseGroup(t)

Codes(codes) == {codes[i] : i \in 1..Len(codes)}

\* the country auto-detection would put in front, if any
DetectedCodes(t) ==
    IF AutoDetectOn(t) /\ LangCountryForm(language[t]) THEN {LocaleCountry(language[t])}
    ELSE {}

\* auto-detection is on and the active language has a separator
DetectionApplies(t) ==
    /\ AutoDetectOn(t)
    /\ ~IsNone(language[t])
    /\ \E i \in 1..Len(Val(language[t])) : IsSeparator(CharAt(Val(language[t]), i))

-----------------------------------------------------------------------------
(* Iteration inside a context (Spec).                                      *)

Iterated == last.op = "iterate"

\* the codes named by the only option of the thread's context
OnlyCodes(t) ==
    LET items == ctxOptions[t][1]["only"][1][1].items
    IN {items[i].code : i \in 1..Len(items)}

\* the codes of the first option of the thread's context that only names,
\* in the order of the first list
FirstAmongOnly(t) ==
    SelectSeq(ctxOptions[t][1]["first"][1][1], LAMBDA code : code \in OnlyCodes(t))

\* C12: inside countries_context(only=[...], first=[...]) iteration raises
\* nothing, yields exactly the countries named by only (no override being
\* in force), and starts with the first codes that are among them,
\* whatever the instance had cached when the block was entered.
C12_OnlyContext ==
    (/\ Iterated
     /\ ContextNames(last.t, "only")
     /\ ContextNames(last.t, "first")
     /\ ~TruthySeq(get_option(Env(last.t), "override")))
    => /\ last.exc = ""
       /\ {last.ret[i].code : i \in 1..Len(last.ret)} = OnlyCodes(last.t)
       /\ LET n == Len(FirstAmongOnly(last.t))
          IN /\ Len(last.ret) >= n
             /\ {last.ret[i].code : i \in 1..n} = Codes(FirstAmongOnly(last.t))

\* C13: inside a context whose first_by_language has an entry for the
\* active language, iteration raises nothing and starts with the codes of
\* that entry that are in the mapping.
C13_ContextByLanguage ==
    (/\ Iterated
     /\ ContextNames(last.t, "first_by_language")
     /\ (HasExactEntry(last.t) \/ HasBaseEntry(last.t)))
    => /\ last.exc = ""
       /\ LET expected == ExpectedFirst(countries_get(self, Env(last.t)).ret,
                                        MatchingEntry(last.t))
              n == Len(expected)
          IN /\ Len(last.ret) >= n
             /\ (HasExactEntry(last.t) \/ ~DetectionApplies(last.t))
                => {last.ret[i].code : i \in 1..n} = Codes(expected)

-----------------------------------------------------------------------------
(* The shape of the list of choices (SpecList).                            *)

\* iteration returned a list
Listed == Iterated /\ last.exc = ""

\* the codes of the first block of the list just returned: first_codes as
\* iteration computed it
BlockCodes == FirstCodes(Ret(self, <<>>), Env(last.t), _resolve_first_countries(Env(last.t))).ret

\* the mapping in force for the thread of the last call
MappingInForce == countries_get(self, Env(last.t)).ret

FirstRepeat == get_option(Env(last.t), "first_repeat") = Some(TRUE)

\* the positions of the list after the first block
AfterBlock == (Len(BlockCodes) + 1)..Len(last.ret)

\* how many names the mapping gives the code
NameCount(code) ==
    LET country == DictGet(MappingInForce, code)
    IN IF country.isdict /\ ~IsNone(country.names) THEN Len(Val(country.names)) ELSE 1

Separators == {i \in 1..Len(last.ret) : last.ret[i].code = ""}

BreakSet == TruthyStr(get_option(Env(last.t), "first_break"))

SortedPart == (Len(BlockCodes) + Cardinality(Separators) + 1)..Len(last.ret)

\* the place of the code in the mapping in force
MappingIndex(code) ==
    CHOOSE k \in 1..Len(MappingInForce) : MappingInForce[k].k = code

\* C16: the records after the first block and the separator are in
\* non-decreasing order of the collation key of the name they carry (the
\* name in the active language), and records of equal keys are in the
\* order of the mapping in force.
C16_SortedStable ==
    Listed =>
        /\ \A i \in SortedPart : DictHas(MappingInForce, last.ret[i].code)
        /\ \A i, j \in SortedPart :
              i < j => /\ sort_key(last.ret[i]) <= sort_key(last.ret[j])
                       /\ sort_key(last.ret[i]) = sort_key(last.ret[j])
                          => MappingIndex(last.ret[i].code) <= MappingIndex(last.ret[j].code)

\* FR and XX have the same name and follow each other in the order of the
\* mapping, while French sorts the United States before France
C16_Witness ==
    /\ Listed
    /\ language[last.t] = Some("fr-ca")
    /\ \E i, j, k \in SortedPart :
          /\ i < j /\ k = j + 1
          /\ last.ret[i] = [code |-> "US", name |-> "Etats-Unis"]
          /\ last.ret[j] = [code |-> "FR", name |-> "France"]
          /\ last.ret[k] = [code |-> "XX", name |-> "France"]

-----------------------------------------------------------------------------
(* The length and indexing (SpecList).                                     *)

\* the resolved first codes, normalised, that are in the mapping in force
FirstInMapping == ExpectedFirst(MappingInForce, _resolve_first_countries(Env(last.t)))

\* C17: len(countries) is the number of codes of the mapping in force, plus
\* the number of resolved first codes that are in it, plus one if that
\* number is not zero and first_break is set.
C17_LenFormula ==
    last.op = "len" =>
        /\ last.exc = ""
        /\ last.ret = Len(MappingInForce) + Len(FirstInMapping)
                      + (IF FirstInMapping # <<>> /\ BreakSet THEN 1 ELSE 0)

\* what list(countries) gives on the same object under the same language
\* and context
ListNow == iterate(self, Env(last.t))

\* C18: len(countries) is the number of records that iterating the same
\* object yields under the same language and context.
C18_LenIsListLength ==
    last.op = "len" => (last.exc = ListNow.exc /\ (last.exc = "" => last.ret = Len(ListNow.ret)))

\* items[start:stop:step] of a Python list, for start, stop >= 0 and
\* step >= 1, None standing for an omitted bound: the items at the
\* positions (from 0) start, start + step, ... below stop, in their order
PySlice(items, index) ==
    LET start == IF IsNone(index.start) THEN 0 ELSE Val(index.start)
        stop == IF IsNone(index.stop) THEN Len(items) ELSE Val(index.stop)
        step == IF IsNone(index.step) THEN 1 ELSE Val(index.step)
        picked == {p \in 0..(Len(items) - 1) :
                      p >= start /\ p < stop /\ (p - start) % step = 0}
        Nth(k) == CHOOSE p \in picked : Cardinality({q \in picked : q < p}) = k - 1
    IN [k \in 1..Cardinality(picked) |-> items[Nth(k) + 1]]

\* C19: countries[i] is the record at position i of list(countries) for
\* every i from 0 below the number of records, and countries[start:stop:step]
\* is list(countries)[start:stop:step].
C19_IndexAsList ==
    (last.op = "getitem" /\ ListNow.exc = "") =>
        IF last.index.isslice
        THEN last.exc = "" /\ last.ret = PySlice(ListNow.ret, last.index)
        ELSE last.index.i < Len(ListNow.ret)
             => (last.exc = "" /\ last.ret = ListNow.ret[last.index.i + 1])

\* every second record was asked for, and the list has five or more
C19_Witness ==
    /\ last.op = "getitem"
    /\ last.index = Slice(None, None, Some(2))
    /\ last.exc = ""
    /\ Len(last.ret) >= 3
    /\ last.ret[3] = ListNow.ret[5]

-----------------------------------------------------------------------------
(* Code lookups (SpecLookup).                                              *)

AlphaLooked == last.op = "alpha2"

\* the alpha-3 code of an entry of the mapping: the one its name dict
\* carries, else the one of the base table, else ""
Alpha3Of(entry) ==
    IF entry.v.isdict /\ ~IsNone(entry.v.alpha3) THEN Val(entry.v.alpha3)
    ELSE IF DictHas(ALT_CODES, entry.k) THEN DictGet(ALT_CODES, entry.k)[1]
    ELSE ""

\* the numeric code of an entry of the mapping, likewise, else None
NumericOf(entry) ==
    IF entry.v.isdict /\ ~IsNone(entry.v.numeric) THEN entry.v.numeric
    ELSE IF DictHas(ALT_CODES, entry.k) THEN DictGet(ALT_CODES, entry.k)[2]
    ELSE None

\* the keys of the mapping whose numeric code (for an all-digit code) or
\* alpha-3 code (for another code of three characters) is the code
AltKeys(mapping, code_str) ==
    { mapping[i].k : i \in { j \in 1..Len(mapping) :
        IF str_isdigit(code_str) THEN NumericOf(mapping[j]) = Some(str_int(code_str))
        ELSE Len(code_str) = 3 /\ Alpha3Of(mapping[j]) = code_str } }

\* the results the statement allows for a code
AllowedAlpha2(mapping, code) ==
    LET code_str == str_upper(code)
    IN IF DictHas(mapping, code_str) THEN {code_str}
       ELSE IF AltKeys(mapping, code_str) # {} THEN AltKeys(mapping, code_str)
       ELSE {""}

\* C20: alpha2(code) returns the upper-cased code if it is a key of the
\* effective mapping; otherwise the key whose numeric code equals an
\* all-digit code, or whose alpha-3 code equals a three-character code;
\* and the empty string in every other case or when nothing matches.
C20_Alpha2 ==
    AlphaLooked =>
        /\ last.exc = ""
        /\ last.ret \in AllowedAlpha2(MappingInForce, last.code)

-----------------------------------------------------------------------------
(* The values looked up by code (SpecValues).                              *)

ValueOps == {"name", "alpha3", "numeric", "ioc_code", "flag_url"}

ValueLooked == last.op \in ValueOps

\* the code is no key of the mapping in force, in either case, and no
\* alternate code of one
NotInMapping(code) == AllowedAlpha2(MappingInForce, code) = {""}

\* whether the override of the settings gives alpha3 or numeric to a
\* country of the base table
RedefinesBase ==
    \E i \in 1..Len(Val(settings.override)) :
        LET item == Val(settings.override)[i]
        IN /\ DictHas(ALT_CODES, item.k)
           /\ ~IsNone(item.v)
           /\ Val(item.v).isdict
           /\ (~IsNone(Val(item.v).alpha3) \/ ~IsNone(Val(item.v).numeric))

\* C21: a lookup by a code that is not in the effective mapping raises
\* nothing and returns the empty value: "" for name, alpha3, ioc_code and
\* flag_url, None for numeric, padded or not.
C21_UnknownCode ==
    (ValueLooked /\ NotInMapping(last.code)) =>
        /\ last.exc = ""
        /\ last.ret = IF last.op = "numeric" THEN None ELSE ""

-----------------------------------------------------------------------------
(* The code returned by alpha2 (SpecLookup).                               *)

\* the countries of the base table that are not in the mapping and whose
\* alpha-3 or numeric code the code is
AbsentWithAlt(mapping, code) ==
    LET code_str == str_upper(code)
    IN { ALT_CODES[i].k : i \in { j \in 1..Len(ALT_CODES) :
           /\ ~DictHas(mapping, ALT_CODES[j].k)
           /\ IF str_isdigit(code_str) THEN ALT_CODES[j].v[2] = Some(str_int(code_str))
              ELSE ALT_CODES[j].v[1] = code_str } }

\* C26: the value alpha2 returns is the empty string or a key of the
\* current effective mapping, and the alpha-3 or numeric code of a country
\* that an override removed or only left out resolves to the empty string.
C26_Alpha2InMapping ==
    AlphaLooked =>
        /\ last.exc = "" => (last.ret = "" \/ DictHas(MappingInForce, last.ret))
        /\ (/\ AbsentWithAlt(MappingInForce, last.code) # {}
            /\ NotInMapping(last.code))
               => (last.exc = "" /\ last.ret = "")

-----------------------------------------------------------------------------
(* The effective mapping (SpecBuild).                                      *)

OverrideInForce == Val(get_option(Env(last.t), "override"))

OnlyInForce == get_option(Env(last.t), "only")

\* the codes whose override value is None
RemovedCodes ==
    { OverrideInForce[i].k : i \in { j \in 1..Len(OverrideInForce) : IsNone(OverrideInForce[j].v) } }

\* only is a dict or a list of (code, name) pairs alone: the mapping is
\* dict(only)
OnlyGivesNames == OnlySet(OnlyInForce) /\ OnlyChoices(OnlyInForce)

\* a removed code is no key of the mapping read, is in no record of the
\* list iterated, and has the name ""
RemovedStayOut ==
    /\ (last.op = "countries" /\ last.exc = "")
           => \A code \in RemovedCodes : ~DictHas(last.ret, code)
    /\ Listed => \A i \in 1..Len(last.ret) : last.ret[i].code \notin RemovedCodes
    /\ (last.op = "name" /\ last.code \in RemovedCodes) => (last.exc = "" /\ last.ret = "")

PlainOverrides ==
    { i \in 1..Len(OverrideInForce) :
        ~IsNone(OverrideInForce[i].v) /\ ~Val(OverrideInForce[i].v).isdict }

\* the mapping a fresh instance builds from the same options without the
\* override
WithoutOverride ==
    countries_get(NewCountries,
                  [Env(last.t) EXCEPT !.settings.override = Some(<<>>),
                                      !.attrs.override = None]).ret

\* the name name() gives for an entry of a mapping, in a language without
\* catalogue
PlainNameOf(mapping, code) ==
    IF DictHas(mapping, code) THEN Val(DictGet(mapping, code).name) ELSE ""

\* every plain override name is in the mapping read, and is what name()
\* returns
OverrideNamesTaken ==
    /\ (last.op = "countries" /\ last.exc = "")
           => \A i \in PlainOverrides :
                  /\ DictHas(last.ret, OverrideInForce[i].k)
                  /\ DictGet(last.ret, OverrideInForce[i].k) = Val(OverrideInForce[i].v)
    /\ last.op = "name"
           => \A i \in PlainOverrides :
                  last.code = OverrideInForce[i].k
                      => (last.exc = "" /\ last.ret = Val(Val(OverrideInForce[i].v).name))

\* every code the override does not mention is in the mapping exactly if
\* it is there without the override, under the same name
OthersKeepNames ==
    /\ (last.op = "countries" /\ last.exc = "")
           => \A code \in (DictKeys(last.ret) \cup DictKeys(WithoutOverride))
                               \ DictKeys(OverrideInForce) :
                  /\ DictHas(last.ret, code)
                  /\ DictHas(WithoutOverride, code)
                  /\ DictGet(last.ret, code) = DictGet(WithoutOverride, code)
    /\ (last.op = "name" /\ last.code \notin DictKeys(OverrideInForce))
           => (last.exc = "" /\ last.ret = PlainNameOf(WithoutOverride, last.code))

OnlyItemName(item) ==
    IF ~IsNone(item.name) THEN Val(item.name)
    ELSE IF get_option(Env(last.t), "common_names") = Some(TRUE) /\ DictHas(COMMON_NAMES, item.code)
    THEN DictGet(COMMON_NAMES, item.code)
    ELSE DictGet(COUNTRIES, item.code)

\* C24: with only set and no override, the keys of the effective mapping
\* are exactly the codes of only; a bare code has the name of the base
\* table (its common name when common_names is on) and a (code, name)
\* pair the name given.
C24_OnlyExact ==
    (/\ last.op = "countries"
     /\ last.exc = ""
     /\ OnlySet(OnlyInForce)
     /\ OverrideInForce = <<>>) =>
        LET items == Val(OnlyInForce).items
        IN /\ DictKeys(last.ret) = { items[i].code : i \in 1..Len(items) }
           /\ \A i \in 1..Len(items) :
                  DictGet(last.ret, items[i].code) = OnlyItemName(items[i])

-----------------------------------------------------------------------------
(* Two threads and one instance (SpecThreads).                             *)

\* the value get_option owes a thread: that of the thread's own block if
\* the block names the option, else the attribute, else the setting
OwnOption(t, option) ==
    IF ContextNames(t, option) THEN ctxOptions[t][1][option][1]
    ELSE IF attrs[option] # None THEN attrs[option]
    ELSE settings[option]

\* what a new instance yields to the thread under the thread's own block
AloneList(t) == iterate(NewCountries, Env(t))

\* C25: a countries_context holds for the thread that entered it alone:
\* get_option and iteration in a thread see the options of that thread's
\* own block and none of the other thread's, entering or leaving a block
\* changes the options of no other thread, and leaving restores the
\* options the thread had when it entered, in every interleaving.
C25_ThreadLocal ==
    [][/\ \A t \in Threads :
            /\ Len(ctxFrames'[t]) < Len(ctxFrames[t])
                   => ctxOptions'[t] = ctxEntered[t][Len(ctxEntered[t])]
            /\ ctxFrames'[t] = ctxFrames[t] => ctxOptions'[t] = ctxOptions[t]
       /\ last'.op = "get_option" => last'.ret = OwnOption(last'.t, last'.option)
       /\ (last'.op = "iterate" /\ ~ContextNames(last'.t, "only"))
              => (last'.exc = AloneList(last'.t).exc /\ last'.ret = AloneList(last'.t).ret)
      ]_vars

\* the first thread, outside any block, iterates while the second is in a
\* block that restricts the list and has iterated there
C25_Witness ==
    /\ last.op = "iterate"
    /\ last.t = "t1"
    /\ last.exc = ""
    /\ ctxFrames["t1"] = <<>>
    /\ ContextNames("t2", "only")
    /\ ~IsNone(self._iter_cache)
    /\ \E item \in Val(self._iter_cache) : item.k.ctx = ctxOptions["t2"][1]
    /\ Len(last.ret) = 5


\* the shadowed names the instance keeps, {} before the first build
ShadowedKept(obj) == IF IsNone(obj._shadowed_names) THEN <<>> ELSE Val(obj._shadowed_names)

\* C27: reading the effective mapping, inside or outside a context, adds
\* nothing to the shadowed names a code already has: the list of every
\* code is what it was after the read that made it.
C27_ShadowedStable ==
    [][last'.op = "countries" =>
          \A code \in DictKeys(ShadowedKept(self)) :
              /\ DictHas(ShadowedKept(self'), code)
              /\ DictGet(ShadowedKept(self'), code) = DictGet(ShadowedKept(self), code)
      ]_vars

-----------------------------------------------------------------------------
(* Nested blocks (SpecContext).                                            *)

\* the options of a block name the option
Names(block, option) == ~IsNone(block) /\ Val(block) # NoOptions /\ Val(block)[option] # <<>>

AttrOrSetting(option) == IF attrs[option] # None THEN attrs[option] ELSE settings[option]

\* C28: inside an inner block, from its entry on, an option that only
\* the enclosing block names is resolved from the attribute or the
\* setting, and right after the inner block exits it has the enclosing
\* block's value again.
C28_NestedReplaces ==
    [][last'.op = "get_option" =>
          LET t == last'.t
              option == last'.option
          IN /\ (/\ last.op = "enter"
                 /\ last.t = t
                 /\ Len(ctxFrames[t]) = 2
                 /\ Names(ctxEntered[t][2], option)
                 /\ last.options[option] = <<>>)
                    => last'.ret = AttrOrSetting(option)
             /\ (/\ Len(ctxFrames[t]) = 2
                 /\ Names(ctxEntered[t][2], option)
                 /\ ~Names(ctxOptions[t], option))
                    => last'.ret = AttrOrSetting(option)
             /\ (/\ last.op = "exit"
                 /\ last.t = t
                 /\ Len(ctxFrames[t]) = 1
                 /\ Names(last.before, option))
                    => last'.ret = Val(last.before)[option][1]
      ]_vars

\* first_sort, named false by the enclosing block alone, is asked for
\* inside the inner block and comes from the setting
C28_Witness ==
    /\ last.op = "get_option"
    /\ last.option = "first_sort"
    /\ Len(ctxFrames[last.t]) = 2
    /\ Names(ctxEntered[last.t][2], "first_sort")
    /\ Val(ctxEntered[last.t][2]).first_sort = Some(Some(FALSE))
    /\ ~Names(ctxOptions[last.t], "first_sort")
    /\ attrs.first_sort = None
    /\ last.ret = Some(TRUE)

-----------------------------------------------------------------------------
(* The tables of the modules (SpecTables).                                 *)

\* the codes the first instance's override gives an IOC code
IocOverridden ==
    { i \in 1..Len(Val(attrs.override)) : ~IsNone(Val(Val(attrs.override)[i].v).ioc_code) }

\* C29: the dicts data.ALT_CODES and ioc_data.ISO_TO_IOC are never
\* modified: the instance whose mapping carries alpha3, numeric or
\* ioc_code keeps them in a copy of its own, and the instance without
\* such metadata gets the base tables, in whatever order the two compute
\* and invalidate alt_codes and ioc_codes.
C29_BaseTablesKept ==
    /\ tables = [ALT_CODES |-> ALT_CODES, ISO_TO_IOC |-> ISO_TO_IOC]
    /\ (last.op = "alt_codes" /\ last.who = "other")
           => (last.exc = "" /\ last.ret = ALT_CODES)
    /\ (last.op = "ioc_codes" /\ last.who = "other")
           => (last.exc = "" /\ last.ret = ISO_TO_IOC)
    /\ (last.op = "ioc_codes" /\ last.who = "self")
           => /\ last.exc = ""
              /\ \A i \in IocOverridden :
                     DictGet(last.ret, Val(attrs.override)[i].k)
                         = Val(Val(Val(attrs.override)[i].v).ioc_code)

\* the second instance reads alt_codes after the first one has made a
\* copy with the alternate codes of a new country
C29_Witness ==
    /\ last.op = "alt_codes"
    /\ last.who = "other"
    /\ last.ret = ALT_CODES
    /\ ~IsNone(self._alt_codes)
    /\ DictHas(Val(self._alt_codes), "XK")
    /\ ~IsNone(self._ioc_codes)
    /\ Val(self._ioc_codes) # ISO_TO_IOC

-----------------------------------------------------------------------------
(* The codes of the list and the keys of the mapping (Spec).               *)

\* the codes of the records of the list just returned, the separator's
\* empty code left out
YieldedCodes == {last.ret[i].code : i \in 1..Len(last.ret)} \ {""}

\* C30: whatever the settings, the language and the context, iteration
\* yields a list, and the non-empty codes of the list are the keys of the
\* mapping in force: every country of the mapping is listed and no listed
\* code is outside the mapping.
C30_CodesAreKeys ==
    Iterated => /\ last.exc = ""
                /\ YieldedCodes = DictKeys(MappingInForce)

====
